---- MODULE Spec2Model ----
(***************************************************************************)
(* A model of the Bananagrams solver of training_data/src/main.rs: the     *)
(* board, play_word / undo_play, the validity scanners, the candidate      *)
(* filters, the backtracking search play_further (as an explicit stack of  *)
(* frames), its driver play_bananagrams, and the board encoder             *)
(* board_to_bytes.  Letters are numbers 0..NumLetters-1 and a word is a    *)
(* sequence of letters (word[i] of the source is word[i+1] here).          *)
(***************************************************************************)
EXTENDS Integers, Sequences, FiniteSets, TLC

\* ------------------------------------------------------------ constants
\* Value of an empty cell on the board.
EMPTY_VALUE == 30
\* Side of the board (144 in the source; scaled down here).
BOARD_SIZE == 10
\* Letters of the alphabet (26 in the source; scaled down here).
NumLetters == 3
\* Board letters a word may use in check_filter_after_play_later.
FILTER_LETTERS_ON_BOARD == 2
\* The byte that ends a board's record.
END_OF_BOARD == 255
\* The larger of the two attempt ceilings the model runs under.
MaxCeiling == 7
\* The largest count of one letter in a hand.
MaxPerLetter == 2

Letters == 0 .. (NumLetters - 1)
\* MAXIMUM_HAND_SIZE is BOARD_SIZE / 2 in the source (72 of 144).
MAXIMUM_HAND_SIZE == BOARD_SIZE \div 2

Min(a, b) == IF a < b THEN a ELSE b
Max(a, b) == IF a > b THEN a ELSE b

RECURSIVE SumOver(_, _)
SumOver(f, S) ==
  IF S = {} THEN 0
  ELSE LET x == CHOOSE y \in S : TRUE IN f[x] + SumOver(f, S \ {x})

\* The number of tiles of a hand or histogram.
Total(h) == SumOver(h, DOMAIN h)
\* The number of occurrences of letter x in word w.
Occurrences(w, x) == Cardinality({i \in 1 .. Len(w) : w[i] = x})
ZeroLetters == [x \in Letters |-> 0]

\* ---------------------------------------------------------------- Board
\* Board::new: BOARD_SIZE*BOARD_SIZE cells, all EMPTY_VALUE, in one flat vector.
NewBoard == [k \in 0 .. (BOARD_SIZE * BOARD_SIZE - 1) |-> EMPTY_VALUE]
\* The flat index get_val and set_val compute.
Index(row, col) == row * BOARD_SIZE + col
\* Whether the flat index lies in the vector (get_unchecked is undefined otherwise).
InVec(row, col) == Index(row, col) < BOARD_SIZE * BOARD_SIZE
get_val(board, row, col) == board[Index(row, col)]
\* set_val with the two coordinates exchanged.
set_val_transposed(board, row, col, val) == [board EXCEPT ![Index(col, row)] = val]
set_val(board, row, col, val) == [board EXCEPT ![Index(row, col)] = val]

\* The cells of the grid, and those holding a tile.
Cells == (0 .. BOARD_SIZE - 1) \X (0 .. BOARD_SIZE - 1)
Occupied(board) == {c \in Cells : get_val(board, c[1], c[2]) # EMPTY_VALUE}
\* The number of board cells holding letter x.
CountOnBoard(board, x) == Cardinality({c \in Cells : get_val(board, c[1], c[2]) = x})

\* ---------------------------------------------------------- is_makeable
RECURSIVE is_makeable_from(_, _, _)
is_makeable_from(word, i, available_letters) ==
  IF i > Len(word) THEN TRUE
  ELSE IF available_letters[word[i]] = 0 THEN FALSE
  ELSE is_makeable_from(word, i + 1,
         [available_letters EXCEPT ![word[i]] = @ - 1])

\* is_makeable that asks only for each letter's presence, spending no tile.
is_makeable_presence(word, letters) == \A i \in 1 .. Len(word) : letters[word[i]] > 0
\* is_makeable that leaves the word's last letter unexamined.
is_makeable_short(word, letters) == is_makeable_from(SubSeq(word, 1, Len(word) - 1), 1, letters)
is_makeable(word, letters) == is_makeable_from(word, 1, letters)

\* ------------------------------------------------------------ play_word
\* The cell of the word's letter at offset k (0-based) from the origin.
WordCell(row_idx, col_idx, direction, k) ==
  IF direction = "Horizontal" THEN <<row_idx, col_idx + k>> ELSE <<row_idx + k, col_idx>>
\* The coordinate that runs along the word, and the one across it.
Along(row_idx, col_idx, direction) == IF direction = "Horizontal" THEN col_idx ELSE row_idx
Across(row_idx, col_idx, direction) == IF direction = "Horizontal" THEN row_idx ELSE col_idx
\* The cell just before the word's first cell and just after its last on its line.
CellBefore(row_idx, col_idx, direction) == WordCell(row_idx, col_idx, direction, -1)
CellAfter(word, row_idx, col_idx, direction) == WordCell(row_idx, col_idx, direction, Len(word))
\* The neighbours of the word's cell k across the word: on the higher side
\* (row+1 or col+1) and on the lower side (row-1 or col-1).
SideHigh(row_idx, col_idx, direction, k) ==
  IF direction = "Horizontal" THEN <<row_idx + 1, col_idx + k>> ELSE <<row_idx + k, col_idx + 1>>
SideLow(row_idx, col_idx, direction, k) ==
  IF direction = "Horizontal" THEN <<row_idx - 1, col_idx + k>> ELSE <<row_idx + k, col_idx - 1>>

Filled(board, cell) == get_val(board, cell[1], cell[2]) # EMPTY_VALUE

\* "Check if the word will start or end at a letter".
StartsOrEndsAtLetter(word, row_idx, col_idx, board, direction) ==
  \/ /\ Along(row_idx, col_idx, direction) # 0
     /\ Filled(board, CellBefore(row_idx, col_idx, direction))
  \/ /\ BOARD_SIZE - Along(row_idx, col_idx, direction) <= Len(word)
     /\ Filled(board, CellAfter(word, row_idx, col_idx, direction))

\* "Check if the word will border any letters" on either side.
BordersLetter(word, row_idx, col_idx, board, direction) ==
  \E k \in 0 .. (Len(word) - 1) :
    \/ /\ Across(row_idx, col_idx, direction) < BOARD_SIZE - 1
       /\ Filled(board, SideHigh(row_idx, col_idx, direction, k))
    \/ /\ Across(row_idx, col_idx, direction) > 0
       /\ Filled(board, SideLow(row_idx, col_idx, direction, k))

\* A location test that lets a word stand anywhere.
valid_loc_anywhere(word, row_idx, col_idx, board, direction) == TRUE
\* "let mut valid_loc = ...": the word starts at, ends at or borders a letter.
valid_loc(word, row_idx, col_idx, board, direction) ==
  \/ StartsOrEndsAtLetter(word, row_idx, col_idx, board, direction)
  \/ BordersLetter(word, row_idx, col_idx, board, direction)

\* The cells play_word reads before its loop, and whether each lies in the
\* vector; a read outside it (get_unchecked) is undefined behaviour.
ProbedCells(word, row_idx, col_idx, direction) ==
  (IF Along(row_idx, col_idx, direction) # 0
     THEN {CellBefore(row_idx, col_idx, direction)} ELSE {})
  \cup (IF Across(row_idx, col_idx, direction) < BOARD_SIZE - 1
          THEN {SideHigh(row_idx, col_idx, direction, k) : k \in 0 .. (Len(word) - 1)}
          ELSE {})
  \cup (IF Across(row_idx, col_idx, direction) > 0
          THEN {SideLow(row_idx, col_idx, direction, k) : k \in 0 .. (Len(word) - 1)}
          ELSE {})
SpanCells(word, row_idx, col_idx, direction) ==
  {WordCell(row_idx, col_idx, direction, k) : k \in 0 .. (Len(word) - 1)}
AllInVec(cells) == \A c \in cells : InVec(c[1], c[2])

\* The hand test with any() in place of all().
AllUsed_any(remaining_letters) == \E x \in Letters : remaining_letters[x] = 0
\* "remaining_letters.iter().all(|count| *count == 0)".
AllUsed(remaining_letters) == \A x \in Letters : remaining_letters[x] = 0
\* The hand test that also fires on the last tile of a letter.
Lacks_last(remaining_letters, letter) == remaining_letters[letter] <= 1
\* "if *elem == 0": the hand holds no tile of `letter`.
Lacks(remaining_letters, letter) == remaining_letters[letter] = 0
\* A hand from which no tile leaves.
Spend_nothing(remaining_letters, letter) == remaining_letters
\* "*elem -= 1": one tile of `letter` leaves the hand.
Spend(remaining_letters, letter) == [remaining_letters EXCEPT ![letter] = @ - 1]

\* The loop that also accepts a word laid wholly over tiles already there.
RECURSIVE play_word_loop_overlap_accepted(_, _, _, _, _, _, _, _, _, _)
play_word_loop_overlap_accepted(word, i, row_idx, col_idx, direction, board, letters_on_board, played_indices, remaining_letters, entirely_overlaps) ==
  IF i > Len(word)
  THEN IF AllUsed(remaining_letters) /\ ~entirely_overlaps
       THEN [err |-> FALSE, undefined |-> FALSE, ok |-> TRUE, played |-> played_indices,
             remaining |-> remaining_letters, usage |-> "Finished",
             board |-> board, letters_on_board |-> letters_on_board]
       ELSE [err |-> FALSE, undefined |-> FALSE, ok |-> TRUE,
             played |-> played_indices,
             remaining |-> remaining_letters, usage |-> "Remaining",
             board |-> board, letters_on_board |-> letters_on_board]
  ELSE LET cell == WordCell(row_idx, col_idx, direction, i - 1)
           here == get_val(board, cell[1], cell[2])
           written == set_val(board, cell[1], cell[2], word[i])
           counted == [letters_on_board EXCEPT ![word[i]] = @ + 1]
       IN IF here = EMPTY_VALUE
          THEN IF Lacks(remaining_letters, word[i])
               THEN [err |-> FALSE, undefined |-> FALSE, ok |-> FALSE,
                     played |-> Append(played_indices, cell),
                     remaining |-> remaining_letters, usage |-> "Overused",
                     board |-> written, letters_on_board |-> counted]
               ELSE play_word_loop_overlap_accepted(word, i + 1, row_idx, col_idx, direction, written, counted,
                                   Append(played_indices, cell),
                                   Spend(remaining_letters, word[i]), FALSE)
          ELSE IF here # word[i]
               THEN [err |-> FALSE, undefined |-> FALSE, ok |-> FALSE,
                     played |-> played_indices,
                     remaining |-> remaining_letters, usage |-> "Remaining",
                     board |-> board, letters_on_board |-> letters_on_board]
               ELSE play_word_loop_overlap_accepted(word, i + 1, row_idx, col_idx, direction, board,
                                   letters_on_board, played_indices, remaining_letters,
                                   entirely_overlaps)

\* The loop "for i in 0..word.len()" of play_word, from letter i (1-based) on.
RECURSIVE play_word_loop(_, _, _, _, _, _, _, _, _, _)
play_word_loop(word, i, row_idx, col_idx, direction, board, letters_on_board, played_indices, remaining_letters, entirely_overlaps) ==
  IF i > Len(word)
  THEN IF AllUsed(remaining_letters) /\ ~entirely_overlaps
       THEN [err |-> FALSE, undefined |-> FALSE, ok |-> TRUE, played |-> played_indices,
             remaining |-> remaining_letters, usage |-> "Finished",
             board |-> board, letters_on_board |-> letters_on_board]
       ELSE [err |-> FALSE, undefined |-> FALSE, ok |-> ~entirely_overlaps,
             played |-> played_indices,
             remaining |-> remaining_letters, usage |-> "Remaining",
             board |-> board, letters_on_board |-> letters_on_board]
  ELSE LET cell == WordCell(row_idx, col_idx, direction, i - 1)
           here == get_val(board, cell[1], cell[2])
           written == set_val(board, cell[1], cell[2], word[i])
           counted == [letters_on_board EXCEPT ![word[i]] = @ + 1]
       IN IF here = EMPTY_VALUE
          THEN IF Lacks(remaining_letters, word[i])
               THEN [err |-> FALSE, undefined |-> FALSE, ok |-> FALSE,
                     played |-> Append(played_indices, cell),
                     remaining |-> remaining_letters, usage |-> "Overused",
                     board |-> written, letters_on_board |-> counted]
               ELSE play_word_loop(word, i + 1, row_idx, col_idx, direction, written, counted,
                                   Append(played_indices, cell),
                                   Spend(remaining_letters, word[i]), FALSE)
          ELSE IF here # word[i]
               THEN [err |-> FALSE, undefined |-> FALSE, ok |-> FALSE,
                     played |-> played_indices,
                     remaining |-> remaining_letters, usage |-> "Remaining",
                     board |-> board, letters_on_board |-> letters_on_board]
               ELSE play_word_loop(word, i + 1, row_idx, col_idx, direction, board,
                                   letters_on_board, played_indices, remaining_letters,
                                   entirely_overlaps)

\* The bound test one step closer to the origin.
OutOfBounds_early(word, row_idx, col_idx, direction) ==
  Along(row_idx, col_idx, direction) + Len(word) >= BOARD_SIZE - 1
\* "if col_idx + word.len() >= BOARD_SIZE" (row_idx for a vertical word).
OutOfBounds(word, row_idx, col_idx, direction) ==
  Along(row_idx, col_idx, direction) + Len(word) >= BOARD_SIZE

\* play_word: err is the source's Err(()); undefined marks a board access outside
\* the vector; otherwise (ok, played, remaining, usage) is the returned tuple and
\* board, letters_on_board are the two arguments as modified in place.
play_word(word, row_idx, col_idx, board, direction, letters, letters_on_board) ==
  LET unchanged(e, u) ==
        [err |-> e, undefined |-> u, ok |-> FALSE, played |-> <<>>,
         remaining |-> letters, usage |-> "Remaining",
         board |-> board, letters_on_board |-> letters_on_board]
  IN IF OutOfBounds(word, row_idx, col_idx, direction)
     THEN unchanged(TRUE, FALSE)
     ELSE IF ~AllInVec(ProbedCells(word, row_idx, col_idx, direction))
     THEN unchanged(FALSE, TRUE)
     ELSE IF ~valid_loc(word, row_idx, col_idx, board, direction)
     THEN unchanged(FALSE, FALSE)
     ELSE IF ~AllInVec(SpanCells(word, row_idx, col_idx, direction))
     THEN unchanged(FALSE, TRUE)
     ELSE play_word_loop(word, 1, row_idx, col_idx, direction, board, letters_on_board,
                         <<>>, letters, TRUE)

\* ------------------------------------------------------------ undo_play
RECURSIVE undo_play_from(_, _, _, _)
undo_play_from(board, played_indices, i, letters_on_board) ==
  IF i > Len(played_indices)
  THEN [board |-> board, letters_on_board |-> letters_on_board]
  ELSE LET index == played_indices[i]
       IN undo_play_from(set_val(board, index[1], index[2], EMPTY_VALUE), played_indices, i + 1,
                         [letters_on_board EXCEPT ![get_val(board, index[1], index[2])] = @ - 1])

\* undo_play that clears the cells and leaves the histogram as it is.
undo_play_counts_kept(board, played_indices, letters_on_board) ==
  [board |-> undo_play_from(board, played_indices, 1, letters_on_board).board,
   letters_on_board |-> letters_on_board]
\* undo_play that leaves the first played cell in place.
undo_play_but_first(board, played_indices, letters_on_board) ==
  undo_play_from(board, played_indices, 2, letters_on_board)
undo_play(board, played_indices, letters_on_board) ==
  undo_play_from(board, played_indices, 1, letters_on_board)

\* ----------------------------------------------------- validity scanners
\* The cell at position idx of a line: row `line` when the line is a row,
\* column `line` when it is a column.
LineCell(line, idx, is_row) == IF is_row THEN <<line, idx>> ELSE <<idx, line>>

\* The scanners' start when the while loop is skipped.
walk_back_skipped(board, line, is_row, minimum, lowest) == minimum
\* "Find the furthest left column (up row) that the new play is connected to":
\* the while loop, from position `minimum`.
RECURSIVE walk_back(_, _, _, _, _)
walk_back(board, line, is_row, minimum, lowest) ==
  IF minimum > lowest
  THEN IF ~Filled(board, LineCell(line, minimum, is_row))
       THEN minimum + 1
       ELSE walk_back(board, line, is_row, minimum - 1, lowest)
  ELSE minimum

\* The for loop over one line from idx to last, with the check that follows it:
\* FALSE as soon as a run of two or more letters is not a valid word; the loop
\* breaks at the first empty cell past `stop`.
RECURSIVE scan_line(_, _, _, _, _, _, _, _)
scan_line(board, line, is_row, idx, last, stop, current_letters, valid_words) ==
  IF idx > last
  THEN ~(Len(current_letters) > 1 /\ current_letters \notin valid_words)
  ELSE LET cell == LineCell(line, idx, is_row)
       IN IF Filled(board, cell)
          THEN scan_line(board, line, is_row, idx + 1, last, stop,
                         Append(current_letters, get_val(board, cell[1], cell[2])), valid_words)
          ELSE IF Len(current_letters) > 1 /\ current_letters \notin valid_words
               THEN FALSE
               ELSE IF idx > stop
                    THEN TRUE
                    ELSE scan_line(board, line, is_row, idx + 1, last, stop, <<>>, valid_words)

\* One line's check: walk back from `from`, clamp to `lowest`, scan to `last`.
check_line(board, line, is_row, from, lowest, last, stop, valid_words) ==
  scan_line(board, line, is_row,
            Max(walk_back(board, line, is_row, from, lowest), lowest),
            last, stop, <<>>, valid_words)

\* The horizontal check without its second loop, over the columns of the word.
is_board_valid_horizontal_row_only(board, min_col, max_col, min_row, max_row, row, start_col, end_col, valid_words) ==
  check_line(board, row, TRUE, start_col, min_col, max_col, end_col, valid_words)
is_board_valid_horizontal(board, min_col, max_col, min_row, max_row, row, start_col, end_col, valid_words) ==
  /\ check_line(board, row, TRUE, start_col, min_col, max_col, end_col, valid_words)
  /\ \A col_idx \in start_col .. end_col :
       check_line(board, col_idx, FALSE, row, min_row, max_row, row, valid_words)

is_board_valid_vertical(board, min_col, max_col, min_row, max_row, start_row, end_row, col, valid_words) ==
  /\ check_line(board, col, FALSE, start_row, min_row, max_row, end_row, valid_words)
  /\ \A row_idx \in start_row .. end_row :
       check_line(board, row_idx, TRUE, col, min_col, max_col, col, valid_words)

\* ------------------------------------------------------ candidate filters
RECURSIVE check_filter_after_play_from(_, _, _, _, _)
check_filter_after_play_from(letters, word_being_checked, i, played_on_board, already_seen_negative) ==
  IF i > Len(word_being_checked) THEN TRUE
  ELSE LET letter == word_being_checked[i]
       IN IF letters[letter] = 0 /\ letter \notin played_on_board THEN FALSE
          ELSE IF letters[letter] <= 0 /\ already_seen_negative THEN FALSE
          ELSE IF letters[letter] = 0
               THEN check_filter_after_play_from(letters, word_being_checked, i + 1,
                                                 played_on_board, TRUE)
               ELSE check_filter_after_play_from([letters EXCEPT ![letter] = @ - 1],
                                                 word_being_checked, i + 1,
                                                 played_on_board, already_seen_negative)

\* The root filter with its one borrowed letter counted as taken from the start.
check_filter_after_play_one_seen(letters, word_being_checked, played_on_board) ==
  check_filter_after_play_from(letters, word_being_checked, 1, played_on_board, TRUE)
\* "let mut already_seen_negative = false", then the loop over the word's letters.
check_filter_after_play(letters, word_being_checked, played_on_board) ==
  check_filter_after_play_from(letters, word_being_checked, 1, played_on_board, FALSE)

RECURSIVE check_filter_after_play_later_from(_, _, _, _, _)
check_filter_after_play_later_from(current_letters, board_letters, word_being_checked, i, num_from_board) ==
  IF i > Len(word_being_checked) THEN TRUE
  ELSE LET letter == word_being_checked[i]
       IN IF current_letters[letter] = 0
          THEN IF num_from_board = FILTER_LETTERS_ON_BOARD THEN FALSE
               ELSE IF board_letters[letter] = 0 THEN FALSE
               ELSE check_filter_after_play_later_from(
                      current_letters, [board_letters EXCEPT ![letter] = @ - 1],
                      word_being_checked, i + 1, num_from_board + 1)
          ELSE check_filter_after_play_later_from(
                 [current_letters EXCEPT ![letter] = @ - 1], board_letters,
                 word_being_checked, i + 1, num_from_board)

\* The filter with one board letter counted as drawn before the word is read.
check_filter_after_play_later_one_drawn(current_letters, board_letters, word_being_checked) ==
  check_filter_after_play_later_from(current_letters, board_letters, word_being_checked, 1, 1)
\* "let mut num_from_board = 0u8", then the loop over the word's letters.
check_filter_after_play_later(current_letters, board_letters, word_being_checked) ==
  check_filter_after_play_later_from(current_letters, board_letters, word_being_checked, 1, 0)

\* The elements of a sequence.
Range(seq) == {seq[i] : i \in 1 .. Len(seq)}

\* -------------------------------------------------------- board_to_bytes
\* "as u8".
AsU8(n) == n % 256

RECURSIVE board_to_bytes_from(_, _, _, _, _, _)
board_to_bytes_from(board, min_col, max_col, max_row, row, col) ==
  IF row > max_row THEN <<END_OF_BOARD>>
  ELSE IF col > max_col THEN board_to_bytes_from(board, min_col, max_col, max_row, row + 1, min_col)
  ELSE (IF get_val(board, row, col) # EMPTY_VALUE
          THEN <<AsU8(row), AsU8(col), AsU8(get_val(board, row, col))>>
          ELSE <<>>)
       \o board_to_bytes_from(board, min_col, max_col, max_row, row, col + 1)

\* board_to_bytes that stops one column short of max_col.
board_to_bytes_exclusive(board, min_col, max_col, min_row, max_row) ==
  board_to_bytes_from(board, min_col, max_col - 1, max_row, min_row, min_col)
board_to_bytes(board, min_col, max_col, min_row, max_row) ==
  board_to_bytes_from(board, min_col, max_col, max_row, min_row, min_col)

\* ------------------------------------------------- the same on a wider grid
\* A grid wide enough for six-letter words and a hand of twelve tiles.  The
\* definitions above that depend on the side of the grid are repeated with
\* BOARD_SIZE_wide in the place of BOARD_SIZE; everything else (the histograms,
\* the filters, the frames and their loops) serves both grids as it is.
BOARD_SIZE_wide == 24
\* Board::new: BOARD_SIZE*BOARD_SIZE cells, all EMPTY_VALUE, in one flat vector.
NewBoard_wide == [k \in 0 .. (BOARD_SIZE_wide * BOARD_SIZE_wide - 1) |-> EMPTY_VALUE]
\* The flat index get_val and set_val compute.
Index_wide(row, col) == row * BOARD_SIZE_wide + col
\* Whether the flat index lies in the vector (get_unchecked is undefined otherwise).
InVec_wide(row, col) == Index_wide(row, col) < BOARD_SIZE_wide * BOARD_SIZE_wide
get_val_wide(board, row, col) == board[Index_wide(row, col)]
set_val_wide(board, row, col, val) == [board EXCEPT ![Index_wide(row, col)] = val]
Filled_wide(board, cell) == get_val_wide(board, cell[1], cell[2]) # EMPTY_VALUE
\* "Check if the word will start or end at a letter".
StartsOrEndsAtLetter_wide(word, row_idx, col_idx, board, direction) ==
  \/ /\ Along(row_idx, col_idx, direction) # 0
     /\ Filled_wide(board, CellBefore(row_idx, col_idx, direction))
  \/ /\ BOARD_SIZE_wide - Along(row_idx, col_idx, direction) <= Len(word)
     /\ Filled_wide(board, CellAfter(word, row_idx, col_idx, direction))
\* "Check if the word will border any letters" on either side.
BordersLetter_wide(word, row_idx, col_idx, board, direction) ==
  \E k \in 0 .. (Len(word) - 1) :
    \/ /\ Across(row_idx, col_idx, direction) < BOARD_SIZE_wide - 1
       /\ Filled_wide(board, SideHigh(row_idx, col_idx, direction, k))
    \/ /\ Across(row_idx, col_idx, direction) > 0
       /\ Filled_wide(board, SideLow(row_idx, col_idx, direction, k))
\* "let mut valid_loc = ...": the word starts at, ends at or borders a letter.
valid_loc_wide(word, row_idx, col_idx, board, direction) ==
  \/ StartsOrEndsAtLetter_wide(word, row_idx, col_idx, board, direction)
  \/ BordersLetter_wide(word, row_idx, col_idx, board, direction)
\* The cells play_word reads before its loop, and whether each lies in the
\* vector; a read outside it (get_unchecked) is undefined behaviour.
ProbedCells_wide(word, row_idx, col_idx, direction) ==
  (IF Along(row_idx, col_idx, direction) # 0
     THEN {CellBefore(row_idx, col_idx, direction)} ELSE {})
  \cup (IF Across(row_idx, col_idx, direction) < BOARD_SIZE_wide - 1
          THEN {SideHigh(row_idx, col_idx, direction, k) : k \in 0 .. (Len(word) - 1)}
          ELSE {})
  \cup (IF Across(row_idx, col_idx, direction) > 0
          THEN {SideLow(row_idx, col_idx, direction, k) : k \in 0 .. (Len(word) - 1)}
          ELSE {})
AllInVec_wide(cells) == \A c \in cells : InVec_wide(c[1], c[2])
\* The loop "for i in 0..word.len()" of play_word, from letter i (1-based) on.
RECURSIVE play_word_loop_wide(_, _, _, _, _, _, _, _, _, _)
play_word_loop_wide(word, i, row_idx, col_idx, direction, board, letters_on_board, played_indices, remaining_letters, entirely_overlaps) ==
  IF i > Len(word)
  THEN IF AllUsed(remaining_letters) /\ ~entirely_overlaps
       THEN [err |-> FALSE, undefined |-> FALSE, ok |-> TRUE, played |-> played_indices,
             remaining |-> remaining_letters, usage |-> "Finished",
             board |-> board, letters_on_board |-> letters_on_board]
       ELSE [err |-> FALSE, undefined |-> FALSE, ok |-> ~entirely_overlaps,
             played |-> played_indices,
             remaining |-> remaining_letters, usage |-> "Remaining",
             board |-> board, letters_on_board |-> letters_on_board]
  ELSE LET cell == WordCell(row_idx, col_idx, direction, i - 1)
           here == get_val_wide(board, cell[1], cell[2])
           written == set_val_wide(board, cell[1], cell[2], word[i])
           counted == [letters_on_board EXCEPT ![word[i]] = @ + 1]
       IN IF here = EMPTY_VALUE
          THEN IF Lacks(remaining_letters, word[i])
               THEN [err |-> FALSE, undefined |-> FALSE, ok |-> FALSE,
                     played |-> Append(played_indices, cell),
                     remaining |-> remaining_letters, usage |-> "Overused",
                     board |-> written, letters_on_board |-> counted]
               ELSE play_word_loop_wide(word, i + 1, row_idx, col_idx, direction, written, counted,
                                   Append(played_indices, cell),
                                   Spend(remaining_letters, word[i]), FALSE)
          ELSE IF here # word[i]
               THEN [err |-> FALSE, undefined |-> FALSE, ok |-> FALSE,
                     played |-> played_indices,
                     remaining |-> remaining_letters, usage |-> "Remaining",
                     board |-> board, letters_on_board |-> letters_on_board]
               ELSE play_word_loop_wide(word, i + 1, row_idx, col_idx, direction, board,
                                   letters_on_board, played_indices, remaining_letters,
                                   entirely_overlaps)
\* "if col_idx + word.len() >= BOARD_SIZE" (row_idx for a vertical word).
OutOfBounds_wide(word, row_idx, col_idx, direction) ==
  Along(row_idx, col_idx, direction) + Len(word) >= BOARD_SIZE_wide
\* play_word: err is the source's Err(()); undefined marks a board access outside
\* the vector; otherwise (ok, played, remaining, usage) is the returned tuple and
\* board, letters_on_board are the two arguments as modified in place.
play_word_wide(word, row_idx, col_idx, board, direction, letters, letters_on_board) ==
  LET unchanged(e, u) ==
        [err |-> e, undefined |-> u, ok |-> FALSE, played |-> <<>>,
         remaining |-> letters, usage |-> "Remaining",
         board |-> board, letters_on_board |-> letters_on_board]
  IN IF OutOfBounds_wide(word, row_idx, col_idx, direction)
     THEN unchanged(TRUE, FALSE)
     ELSE IF ~AllInVec_wide(ProbedCells_wide(word, row_idx, col_idx, direction))
     THEN unchanged(FALSE, TRUE)
     ELSE IF ~valid_loc_wide(word, row_idx, col_idx, board, direction)
     THEN unchanged(FALSE, FALSE)
     ELSE IF ~AllInVec_wide(SpanCells(word, row_idx, col_idx, direction))
     THEN unchanged(FALSE, TRUE)
     ELSE play_word_loop_wide(word, 1, row_idx, col_idx, direction, board, letters_on_board,
                         <<>>, letters, TRUE)
RECURSIVE undo_play_from_wide(_, _, _, _)
undo_play_from_wide(board, played_indices, i, letters_on_board) ==
  IF i > Len(played_indices)
  THEN [board |-> board, letters_on_board |-> letters_on_board]
  ELSE LET index == played_indices[i]
       IN undo_play_from_wide(set_val_wide(board, index[1], index[2], EMPTY_VALUE), played_indices, i + 1,
                         [letters_on_board EXCEPT ![get_val_wide(board, index[1], index[2])] = @ - 1])
undo_play_wide(board, played_indices, letters_on_board) ==
  undo_play_from_wide(board, played_indices, 1, letters_on_board)
\* "Find the furthest left column (up row) that the new play is connected to":
\* the while loop, from position `minimum`.
RECURSIVE walk_back_wide(_, _, _, _, _)
walk_back_wide(board, line, is_row, minimum, lowest) ==
  IF minimum > lowest
  THEN IF ~Filled_wide(board, LineCell(line, minimum, is_row))
       THEN minimum + 1
       ELSE walk_back_wide(board, line, is_row, minimum - 1, lowest)
  ELSE minimum
\* The for loop over one line from idx to last, with the check that follows it:
\* FALSE as soon as a run of two or more letters is not a valid word; the loop
\* breaks at the first empty cell past `stop`.
RECURSIVE scan_line_wide(_, _, _, _, _, _, _, _)
scan_line_wide(board, line, is_row, idx, last, stop, current_letters, valid_words) ==
  IF idx > last
  THEN ~(Len(current_letters) > 1 /\ current_letters \notin valid_words)
  ELSE LET cell == LineCell(line, idx, is_row)
       IN IF Filled_wide(board, cell)
          THEN scan_line_wide(board, line, is_row, idx + 1, last, stop,
                         Append(current_letters, get_val_wide(board, cell[1], cell[2])), valid_words)
          ELSE IF Len(current_letters) > 1 /\ current_letters \notin valid_words
               THEN FALSE
               ELSE IF idx > stop
                    THEN TRUE
                    ELSE scan_line_wide(board, line, is_row, idx + 1, last, stop, <<>>, valid_words)
\* One line's check: walk back from `from`, clamp to `lowest`, scan to `last`.
check_line_wide(board, line, is_row, from, lowest, last, stop, valid_words) ==
  scan_line_wide(board, line, is_row,
            Max(walk_back_wide(board, line, is_row, from, lowest), lowest),
            last, stop, <<>>, valid_words)
is_board_valid_horizontal_wide(board, min_col, max_col, min_row, max_row, row, start_col, end_col, valid_words) ==
  /\ check_line_wide(board, row, TRUE, start_col, min_col, max_col, end_col, valid_words)
  /\ \A col_idx \in start_col .. end_col :
       check_line_wide(board, col_idx, FALSE, row, min_row, max_row, row, valid_words)
is_board_valid_vertical_wide(board, min_col, max_col, min_row, max_row, start_row, end_row, col, valid_words) ==
  /\ check_line_wide(board, col, FALSE, start_row, min_row, max_row, end_row, valid_words)
  /\ \A row_idx \in start_row .. end_row :
       check_line_wide(board, row_idx, TRUE, col, min_col, max_col, col, valid_words)

\* ================================================================ state
VARIABLES
  dictionary,             \* play_bananagrams: the dictionary argument
  available_letters,      \* play_bananagrams: the hand argument
  maximum_words_checked,  \* MAXIMUM_WORDS_CHECKED of this run
  pc,                     \* the position of the solve
  valid_words_vec,        \* play_bananagrams: the words makeable from the hand
  word_num,               \* play_bananagrams: position of the root word (1-based)
  words_checked,          \* play_bananagrams: the attempt counter
  board,                  \* the Board of the current root attempt (<<>> before one exists)
  letters_on_board,       \* the on-board histogram of the current root attempt
  stack,                  \* the play_further frames, outermost first
  result,                 \* what play_bananagrams returned
  calls,                  \* the number of play_word calls made so far
  ended,                  \* how each root-word attempt so far ended
  t                       \* the arguments and results of a direct call of one function

vars == <<dictionary, available_letters, maximum_words_checked, pc, valid_words_vec, word_num,
          words_checked, board, letters_on_board, stack, result, calls, ended, t>>
inputs == <<dictionary, available_letters, maximum_words_checked>>

\* ------------------------------------------------------------- inputs
\* The words dictionaries are drawn from, longest first as main sorts them.
WordUniverse ==
  << <<0, 1, 2>>, <<2, 0, 1>>, <<0, 1>>, <<1, 0>>, <<2, 0>>, <<1, 2>>, <<0, 2>> >>
\* The sub-sequence of WordUniverse at the positions in S.
SubDictionary(S) == SelectSeq(WordUniverse, LAMBDA w : \E i \in S : WordUniverse[i] = w)
Dictionaries == {SubDictionary(S) : S \in SUBSET (1 .. Len(WordUniverse))}
Hands == {h \in [Letters -> 0 .. MaxPerLetter] : Total(h) \in 1 .. MAXIMUM_HAND_SIZE}
Ceilings == {1, MaxCeiling}

NoResult == [kind |-> "pending"]

Init ==
  /\ dictionary \in Dictionaries
  /\ available_letters \in Hands
  /\ maximum_words_checked \in Ceilings
  /\ pc = "start"
  /\ valid_words_vec = <<>>
  /\ word_num = 0
  /\ words_checked = 0
  /\ board = <<>>
  /\ letters_on_board = <<>>
  /\ stack = <<>>
  /\ result = NoResult
  /\ calls = 0
  /\ ended = <<>>
  /\ t = [op |-> "solve"]

\* -------------------------------------------------------- play_bananagrams
\* Lines 739-743: the words makeable from the hand; none means None at once.
Start ==
  /\ pc = "start"
  /\ LET makeable == SelectSeq(dictionary, LAMBDA word : is_makeable(word, available_letters))
     IN /\ valid_words_vec' = makeable
        /\ IF Len(makeable) = 0
           THEN /\ pc' = "done"
                /\ result' = [kind |-> "None"]
           ELSE /\ pc' = "root"
                /\ result' = result
  /\ word_num' = 1
  /\ words_checked' = 0
  /\ UNCHANGED <<inputs, board, letters_on_board, stack, calls, ended, t>>

\* A root placement that writes the cells and spends the tiles but counts nothing.
RECURSIVE place_root_uncounted(_, _, _, _, _, _, _)
place_root_uncounted(word, i, row, col_start, brd, on_board, use_letters) ==
  IF i > Len(word)
  THEN [board |-> brd, letters_on_board |-> on_board, use_letters |-> use_letters]
  ELSE place_root_uncounted(word, i + 1, row, col_start,
                            set_val(brd, row, col_start + (i - 1), word[i]),
                            on_board,
                            [use_letters EXCEPT ![word[i]] = @ - 1])
\* The board and histogram after the root word is written on a new board.
RECURSIVE place_root(_, _, _, _, _, _, _)
place_root(word, i, row, col_start, brd, on_board, use_letters) ==
  IF i > Len(word)
  THEN [board |-> brd, letters_on_board |-> on_board, use_letters |-> use_letters]
  ELSE place_root(word, i + 1, row, col_start,
                  set_val(brd, row, col_start + (i - 1), word[i]),
                  [on_board EXCEPT ![word[i]] = @ + 1],
                  [use_letters EXCEPT ![word[i]] = @ - 1])

\* A new play_further frame, at its entry.
Frame(min_col, max_col, min_row, max_row, words, letters, depth) ==
  [min_col |-> min_col, max_col |-> max_col, min_row |-> min_row, max_row |-> max_row,
   valid_words_vec |-> words, letters |-> letters, depth |-> depth,
   pass |-> 1, w |-> 1, outer |-> 0, inner |-> 0,
   res |-> [ok |-> FALSE, played |-> <<>>, remaining |-> letters, usage |-> "Remaining"]]

\* Lines 745-775: the next root word on a new board, or None after the last.
Root ==
  /\ pc = "root"
  /\ IF word_num > Len(valid_words_vec)
     THEN /\ pc' = "done"
          /\ result' = [kind |-> "None"]
          /\ UNCHANGED <<words_checked, board, letters_on_board, stack, ended>>
     ELSE LET word == valid_words_vec[word_num]
              col_start == (BOARD_SIZE \div 2) - (Len(word) \div 2)
              row == BOARD_SIZE \div 2
              placed == place_root(word, 1, row, col_start, NewBoard, ZeroLetters,
                                   available_letters)
              min_col == col_start
              min_row == row
              max_col == col_start + (Len(word) - 1)
              max_row == row
              word_letters == Range(word)
              later == SubSeq(valid_words_vec, word_num, Len(valid_words_vec))
              new_valid_words_vec ==
                SelectSeq(later, LAMBDA w :
                            check_filter_after_play(placed.use_letters, w, word_letters))
          IN /\ words_checked' = words_checked + 1
             /\ board' = placed.board
             /\ letters_on_board' = placed.letters_on_board
             /\ IF AllUsed(placed.use_letters)
                THEN /\ pc' = "done"
                     /\ result' = [kind |-> "Some", min_col |-> min_col, max_col |-> max_col,
                                   min_row |-> min_row, max_row |-> max_row]
                     /\ ended' = Append(ended, "RootAlone")
                     /\ stack' = stack
                ELSE /\ pc' = "enter"
                     /\ result' = result
                     /\ ended' = ended
                     /\ stack' = <<Frame(min_col, max_col, min_row, max_row,
                                         new_valid_words_vec, placed.use_letters, 0)>>
  /\ UNCHANGED <<inputs, valid_words_vec, word_num, calls, t>>

\* ------------------------------------------------------------ play_further
Top == stack[Len(stack)]
SetTop(f) == [stack EXCEPT ![Len(stack)] = f]
Pop == SubSeq(stack, 1, Len(stack) - 1)

\* The passes with the parities exchanged.
PassDirection_even_first(depth, pass) ==
  IF (depth % 2 = 0) = (pass = 1) THEN "Horizontal" ELSE "Vertical"
\* Odd depth plays horizontally in its first pass, even depth vertically.
PassDirection(depth, pass) ==
  IF (depth % 2 = 1) = (pass = 1) THEN "Horizontal" ELSE "Vertical"
Direction(f) == PassDirection(f.depth, f.pass)
Candidate(f) == f.valid_words_vec[f.w]

\* The origins tried for a word: the outer loop runs over the rows (columns for a
\* vertical play) min-1 .. max+1, the inner loop over the columns (rows)
\* min-len .. max+1.  Both lower ends are unsigned subtractions.
OuterLow(f) == IF Direction(f) = "Horizontal" THEN f.min_row - 1 ELSE f.min_col - 1
\* The outer range run two lines further than the source's max+2.
OuterHigh_far(f) == IF Direction(f) = "Horizontal" THEN f.max_row + 3 ELSE f.max_col + 3
\* The last line of the outer range "min-1 .. max+2".
OuterHigh(f) == IF Direction(f) = "Horizontal" THEN f.max_row + 1 ELSE f.max_col + 1
InnerLow(f, word) ==
  IF Direction(f) = "Horizontal" THEN f.min_col - Len(word) ELSE f.min_row - Len(word)
InnerHigh(f) == IF Direction(f) = "Horizontal" THEN f.max_col + 1 ELSE f.max_row + 1
Underflows(f, word) == OuterLow(f) < 0 \/ InnerLow(f, word) < 0
\* What an underflow does: a panic (overflow checks on) or a wrapped, and so
\* empty, range (overflow checks off).
UnderflowOutcomes(f, word) == IF Underflows(f, word) THEN {"panic", "wrap"} ELSE {"none"}

RowOf(f) == IF Direction(f) = "Horizontal" THEN f.outer ELSE f.inner
ColOf(f) == IF Direction(f) = "Horizontal" THEN f.inner ELSE f.outer

\* An attempt's end that ends the whole call with no board.
EndAttempt_stop(how) ==
  /\ stack' = <<>>
  /\ word_num' = word_num
  /\ pc' = "done"
  /\ ended' = Append(ended, how)
  /\ result' = [kind |-> "None"]
\* A root-word attempt ends without a board: play_bananagrams goes on to the next.
EndAttempt(how) ==
  /\ stack' = <<>>
  /\ word_num' = word_num + 1
  /\ pc' = "root"
  /\ ended' = Append(ended, how)
  /\ result' = result

\* The ceiling test that already fires at the ceiling.
CeilingExceeded_at(checked, ceiling) == checked >= ceiling
\* The ceiling test that lets one more frame in.
CeilingExceeded_late(checked, ceiling) == checked > ceiling + 1
\* "*words_checked > MAXIMUM_WORDS_CHECKED".
CeilingExceeded(checked, ceiling) == checked > ceiling

\* Lines 524-526: the ceiling, checked when a frame is entered.
Enter ==
  /\ pc = "enter"
  /\ IF CeilingExceeded(words_checked, maximum_words_checked)
     THEN EndAttempt("AttemptCeilingExceeded")
     ELSE /\ pc' = "word"
          /\ UNCHANGED <<stack, word_num, ended, result>>
  /\ UNCHANGED <<inputs, valid_words_vec, words_checked, board, letters_on_board, calls, t>>

\* The head of a "for word in valid_words_vec" loop: the next candidate (and one
\* more word checked), the second pass, or the frame's return of Ok((false, ..)).
NextWord ==
  /\ pc = "word"
  /\ LET f == Top
     IN IF f.w > Len(f.valid_words_vec)
        THEN /\ IF f.pass = 1 /\ f.depth # 0
                THEN /\ stack' = SetTop([f EXCEPT !.pass = 2, !.w = 1])
                     /\ pc' = "word"
                     /\ UNCHANGED <<word_num, ended, result>>
                ELSE IF Len(stack) = 1
                THEN EndAttempt("NoSuccess")
                ELSE /\ stack' = Pop
                     /\ pc' = "returned"
                     /\ UNCHANGED <<word_num, ended, result>>
             /\ UNCHANGED words_checked
        ELSE /\ words_checked' = words_checked + 1
             /\ \E outcome \in UnderflowOutcomes(f, Candidate(f)) :
                  CASE outcome = "none" ->
                         /\ stack' = SetTop([f EXCEPT !.outer = OuterLow(f),
                                                      !.inner = InnerLow(f, Candidate(f))])
                         /\ pc' = "try"
                    [] outcome = "wrap" ->
                         /\ stack' = SetTop([f EXCEPT !.w = @ + 1])
                         /\ pc' = "word"
                    [] outcome = "panic" ->
                         /\ stack' = stack
                         /\ pc' = "panic"
             /\ UNCHANGED <<word_num, ended, result>>
  /\ UNCHANGED <<inputs, valid_words_vec, board, letters_on_board, calls, t>>

\* The call of play_word at the current origin; its `?` ends the root attempt.
Try ==
  /\ pc = "try"
  /\ LET f == Top
         res == play_word(Candidate(f), RowOf(f), ColOf(f), board, Direction(f),
                          f.letters, letters_on_board)
     IN /\ calls' = calls + 1
        /\ IF res.err
           THEN /\ EndAttempt("OutOfBounds")
                /\ UNCHANGED <<board, letters_on_board>>
           ELSE IF res.undefined
           THEN /\ pc' = "undefined"
                /\ UNCHANGED <<stack, word_num, ended, result, board, letters_on_board>>
           ELSE /\ board' = res.board
                /\ letters_on_board' = res.letters_on_board
                /\ stack' = SetTop([f EXCEPT !.res = [ok |-> res.ok, played |-> res.played,
                                                      remaining |-> res.remaining,
                                                      usage |-> res.usage]])
                /\ pc' = "played"
                /\ UNCHANGED <<word_num, ended, result>>
  /\ UNCHANGED <<inputs, valid_words_vec, words_checked, t>>

\* The bounding box play_further computes for an accepted play.
NewBox(f) ==
  LET n == Len(Candidate(f))
  IN IF Direction(f) = "Horizontal"
     THEN [min_col |-> Min(f.min_col, ColOf(f)), max_col |-> Max(f.max_col, ColOf(f) + n),
           min_row |-> Min(f.min_row, RowOf(f)), max_row |-> Max(f.max_row, RowOf(f))]
     ELSE [min_col |-> Min(f.min_col, ColOf(f)), max_col |-> Max(f.max_col, ColOf(f)),
           min_row |-> Min(f.min_row, RowOf(f)), max_row |-> Max(f.max_row, RowOf(f) + n)]

\* The validity check against the frame's candidates instead of the makeable words.
PlayIsValid_candidates(f, brd) ==
  LET n == Len(Candidate(f))
      box == NewBox(f)
      valid_words_set == Range(f.valid_words_vec)
  IN IF Direction(f) = "Horizontal"
     THEN is_board_valid_horizontal(brd, box.min_col, box.max_col, box.min_row, box.max_row,
                                    RowOf(f), ColOf(f), ColOf(f) + n - 1, valid_words_set)
     ELSE is_board_valid_vertical(brd, box.min_col, box.max_col, box.min_row, box.max_row,
                                  RowOf(f), RowOf(f) + n - 1, ColOf(f), valid_words_set)
\* The validity check play_further makes of an accepted play.
PlayIsValid(f, brd) ==
  LET n == Len(Candidate(f))
      box == NewBox(f)
      valid_words_set == Range(valid_words_vec)
  IN IF Direction(f) = "Horizontal"
     THEN is_board_valid_horizontal(brd, box.min_col, box.max_col, box.min_row, box.max_row,
                                    RowOf(f), ColOf(f), ColOf(f) + n - 1, valid_words_set)
     ELSE is_board_valid_vertical(brd, box.min_col, box.max_col, box.min_row, box.max_row,
                                  RowOf(f), RowOf(f) + n - 1, ColOf(f), valid_words_set)

\* The candidates handed to the recursive call.
NewValidWordsVec(f, on_board) ==
  SelectSeq(f.valid_words_vec,
            LAMBDA w : check_filter_after_play_later(f.letters, on_board, w))

\* The frame after the attempt at its current origin is over: the next origin of
\* the inner loop, of the outer loop, or the head of the word loop.
Advance(f) ==
  IF f.inner < InnerHigh(f) THEN [f EXCEPT !.inner = @ + 1]
  ELSE IF f.outer < OuterHigh(f)
       THEN [f EXCEPT !.outer = @ + 1, !.inner = InnerLow(f, Candidate(f))]
       ELSE [f EXCEPT !.w = @ + 1]
AdvancePc(f) ==
  IF f.inner < InnerHigh(f) \/ f.outer < OuterHigh(f) THEN "try" ELSE "word"

\* undo_play of the frame's last play, then on to the next origin.
UndoAndAdvance(f) ==
  LET undone == undo_play(board, f.res.played, letters_on_board)
  IN /\ board' = undone.board
     /\ letters_on_board' = undone.letters_on_board
     /\ stack' = SetTop(Advance(f))
     /\ pc' = AdvancePc(f)
     /\ UNCHANGED <<word_num, ended, result>>

\* What play_further does with the tuple play_word returned.
Played ==
  /\ pc = "played"
  /\ LET f == Top
         box == NewBox(f)
     IN IF f.res.ok /\ PlayIsValid(f, board)
        THEN IF f.res.usage = "Finished"
             THEN /\ pc' = "done"
                  /\ result' = [kind |-> "Some", min_col |-> box.min_col,
                                max_col |-> box.max_col, min_row |-> box.min_row,
                                max_row |-> box.max_row]
                  /\ ended' = Append(ended, "Solved")
                  /\ stack' = <<>>
                  /\ UNCHANGED <<word_num, board, letters_on_board>>
             ELSE /\ stack' = Append(stack,
                                     Frame(box.min_col, box.max_col, box.min_row, box.max_row,
                                           NewValidWordsVec(f, letters_on_board),
                                           f.res.remaining, f.depth + 1))
                  /\ pc' = "enter"
                  /\ UNCHANGED <<word_num, ended, result, board, letters_on_board>>
        ELSE UndoAndAdvance(f)
  /\ UNCHANGED <<inputs, valid_words_vec, words_checked, calls, t>>

\* The recursive call returned Ok((false, ..)): undo the play it was made for.
Returned ==
  /\ pc = "returned"
  /\ UndoAndAdvance(Top)
  /\ UNCHANGED <<inputs, valid_words_vec, words_checked, calls, t>>

Next == Start \/ Root \/ Enter \/ NextWord \/ Try \/ Played \/ Returned

Spec == Init /\ [][Next]_vars

\* ===================================================== direct calls
\* The functions the claims speak of on their own are called directly, on boards,
\* hands and words drawn from bounded sets.  The solve's variables stand still.
NoSolve ==
  /\ dictionary = <<>>
  /\ available_letters = ZeroLetters
  /\ maximum_words_checked = 0
  /\ pc = "call"
  /\ valid_words_vec = <<>>
  /\ word_num = 0
  /\ words_checked = 0
  /\ stack = <<>>
  /\ result = NoResult
  /\ calls = 0
  /\ ended = <<>>
solve_vars == <<dictionary, available_letters, maximum_words_checked, pc, valid_words_vec,
                word_num, words_checked, stack, result, calls, ended>>

\* Boards with at most MaxTestTiles tiles, all in a window of two rows and three
\* columns at the grid's first corner (anchor 0) or at its last (anchor BOARD_SIZE-3).
MaxTestTiles == 3
Anchors == {0, BOARD_SIZE - 3}
WindowCells(anchor) ==
  (IF anchor = 0 THEN 0 .. 1 ELSE (BOARD_SIZE - 2) .. (BOARD_SIZE - 1)) \X (anchor .. anchor + 2)
BoardWith(tiles) ==
  [k \in 0 .. (BOARD_SIZE * BOARD_SIZE - 1) |->
     IF \E c \in DOMAIN tiles : Index(c[1], c[2]) = k
     THEN tiles[CHOOSE c \in DOMAIN tiles : Index(c[1], c[2]) = k]
     ELSE EMPTY_VALUE]
TestBoards(anchor) ==
  UNION {{BoardWith(tiles) : tiles \in [S -> {0, 1}]} :
           S \in {S \in SUBSET WindowCells(anchor) : Cardinality(S) <= MaxTestTiles}}
Histogram(brd) == [x \in Letters |-> CountOnBoard(brd, x)]

\* ------------------------------------------- play_word, then undo_play
TestWords == {<<0, 1>>, <<1, 0>>, <<0, 1, 2>>}
TestHands == {[x \in Letters |-> IF x <= 1 THEN 1 ELSE 0], [x \in Letters |-> 1]}

InitPlayWord ==
  /\ NoSolve
  /\ \E anchor \in Anchors, extra \in {0, 1} :
       /\ board \in TestBoards(anchor)
       /\ letters_on_board = [x \in Letters |-> CountOnBoard(board, x) + extra]
       /\ t \in [op : {"play_word"}, stage : {"before"},
                 word : TestWords, letters : TestHands,
                 row_idx : anchor .. (anchor + 2), col_idx : anchor .. (anchor + 2),
                 direction : {"Horizontal", "Vertical"},
                 board0 : {board}, letters_on_board0 : {letters_on_board},
                 board1 : {board}, letters_on_board1 : {letters_on_board},
                 res : {[err |-> FALSE, ok |-> FALSE, played |-> <<>>, usage |-> "none"]}]

\* A call of play_word; board and letters_on_board are modified in place.
CallPlayWord ==
  /\ t.op = "play_word" /\ t.stage = "before"
  /\ LET res == play_word(t.word, t.row_idx, t.col_idx, board, t.direction, t.letters,
                          letters_on_board)
     IN /\ ~res.undefined
        /\ board' = res.board
        /\ letters_on_board' = res.letters_on_board
        /\ t' = [t EXCEPT !.stage = IF res.err THEN "err" ELSE "played",
                          !.board1 = res.board,
                          !.letters_on_board1 = res.letters_on_board,
                          !.res = [err |-> res.err, ok |-> res.ok, played |-> res.played,
                                   usage |-> res.usage, remaining |-> res.remaining]]
  /\ UNCHANGED solve_vars

\* The call of undo_play with the cells play_word returned.
CallUndoPlay ==
  /\ t.op = "play_word" /\ t.stage = "played"
  /\ LET undone == undo_play(board, t.res.played, letters_on_board)
     IN /\ board' = undone.board
        /\ letters_on_board' = undone.letters_on_board
        /\ t' = [t EXCEPT !.stage = "undone"]
  /\ UNCHANGED solve_vars

NextPlayWord == CallPlayWord \/ CallUndoPlay
SpecPlayWord == InitPlayWord /\ [][NextPlayWord]_vars


\* The minimal rectangle containing the occupied cells of a board that has some.
MinimalBox(brd) ==
  LET rows == {c[1] : c \in Occupied(brd)}
      cols == {c[2] : c \in Occupied(brd)}
  IN [min_col |-> CHOOSE c \in cols : \A d \in cols : c <= d,
      max_col |-> CHOOSE c \in cols : \A d \in cols : c >= d,
      min_row |-> CHOOSE r \in rows : \A q \in rows : r <= q,
      max_row |-> CHOOSE r \in rows : \A q \in rows : r >= q]
BoxOf(r) == [min_col |-> r.min_col, max_col |-> r.max_col,
             min_row |-> r.min_row, max_row |-> r.max_row]

\* ------------------------------------------------------- board_to_bytes
\* The bounding boxes handed to board_to_bytes: the minimal rectangle of the
\* occupied cells, or that rectangle with one more column or one more row at its
\* far side, as play_further computes it.
TestBoxes(brd) ==
  LET box == MinimalBox(brd)
  IN {[box EXCEPT !.max_col = @ + dc, !.max_row = @ + dr] :
        dc \in {d \in {0, 1} : box.max_col + d < BOARD_SIZE},
        dr \in {d \in {0, 1} : box.max_row + d < BOARD_SIZE}}

InitBytes ==
  /\ NoSolve
  /\ letters_on_board = ZeroLetters
  /\ \E anchor \in Anchors :
       /\ board \in TestBoards(anchor) \ {NewBoard}
       /\ t \in [op : {"board_to_bytes"}, stage : {"before"}, box : TestBoxes(board),
                 bytes : {<<>>}]

\* A call of board_to_bytes.
CallBoardToBytes ==
  /\ t.op = "board_to_bytes" /\ t.stage = "before"
  /\ t' = [t EXCEPT !.stage = "encoded",
                    !.bytes = board_to_bytes(board, t.box.min_col, t.box.max_col,
                                             t.box.min_row, t.box.max_row)]
  /\ UNCHANGED <<solve_vars, board, letters_on_board>>

NextBytes == CallBoardToBytes
SpecBytes == InitBytes /\ [][NextBytes]_vars

\* ----------------------------------------------------------- is_makeable
\* Every word of at most MaxTestWordLen letters, and every hand with at most
\* MaxPerLetter tiles of a letter.
MaxTestWordLen == 3
AllWords == UNION {[1 .. n -> Letters] : n \in 0 .. MaxTestWordLen}
AllHands == [Letters -> 0 .. MaxPerLetter]

InitMakeable ==
  /\ NoSolve
  /\ board = <<>>
  /\ letters_on_board = <<>>
  /\ \E word \in AllWords, letters \in AllHands :
       t = [op |-> "is_makeable", stage |-> "before", word |-> word, letters |-> letters,
            word0 |-> word, letters0 |-> letters, makeable |-> FALSE]

\* A call of is_makeable: it works on a clone of the hand and only reads the word.
CallIsMakeable ==
  /\ t.op = "is_makeable" /\ t.stage = "before"
  /\ t' = [t EXCEPT !.stage = "returned", !.makeable = is_makeable(t.word, t.letters)]
  /\ UNCHANGED <<solve_vars, board, letters_on_board>>

NextMakeable == CallIsMakeable
SpecMakeable == InitMakeable /\ [][NextMakeable]_vars


\* =============================================================== claims
\* What the claims speak of, stated apart from the code's own computations.
Solved == pc = "done" /\ result.kind = "Some"
\* Multiset containment of a word in a hand.
Contained(word, hand) == \A x \in Letters : Occurrences(word, x) <= hand[x]
\* The letters of cells from..to of row (or column) `line`.
RunLetters(brd, line, is_row, from, to) ==
  [i \in 1 .. (to - from + 1) |->
     LET cell == LineCell(line, from + i - 1, is_row) IN get_val(brd, cell[1], cell[2])]
\* from..to is a maximal run of two or more non-empty cells of the line.
IsMaximalRun(brd, line, is_row, from, to) ==
  /\ from < to
  /\ \A idx \in from .. to : Filled(brd, LineCell(line, idx, is_row))
  /\ from = 0 \/ ~Filled(brd, LineCell(line, from - 1, is_row))
  /\ to = BOARD_SIZE - 1 \/ ~Filled(brd, LineCell(line, to + 1, is_row))
\* Every maximal run of the whole board, in rows and in columns, is in `words`.
AllRunsIn(brd, words) ==
  \A is_row \in BOOLEAN : \A line, from, to \in 0 .. (BOARD_SIZE - 1) :
    IsMaximalRun(brd, line, is_row, from, to)
      => RunLetters(brd, line, is_row, from, to) \in words
LastEnded == ended[Len(ended)]

\* C1: whenever play_bananagrams returns a solved board, the board holds, for
\* every letter, exactly as many cells of that letter as the hand supplied.
C1_SolvedBoardHoldsTheHand ==
  Solved => \A x \in Letters : CountOnBoard(board, x) = available_letters[x]
\* A board solved by play_further (not by the root word alone) from five tiles.
C1_Witness ==
  Solved /\ LastEnded = "Solved" /\ Total(available_letters) = 5

\* C2: whenever play_bananagrams returns a solved board, every maximal run of two
\* or more cells, in any row or column of the whole board, is a dictionary word.
C2_SolvedBoardRunsAreWords ==
  Solved => AllRunsIn(board, Range(dictionary))
\* A solved board with runs in both directions, reached through a recursive frame.
C2_Witness ==
  /\ Solved /\ LastEnded = "Solved" /\ calls > 20
  /\ \E is_row \in BOOLEAN : \E line, from, to \in 0 .. (BOARD_SIZE - 1) :
       ~is_row /\ IsMaximalRun(board, line, is_row, from, to)

\* The hand play_word returned last, while its cells are still on the board.
AfterPlayWord == pc = "played"
OveruseLetter == get_val(board, Top.res.played[Len(Top.res.played)][1],
                         Top.res.played[Len(Top.res.played)][2])
Conserved(hand) ==
  \A x \in Letters : CountOnBoard(board, x) + hand[x] = available_letters[x]

\* C4 as stated: after play_word returns any outcome and before any undo, the
\* cells of each letter plus the returned hand's count equal the supplied count.
C4_AsStated == AfterPlayWord => Conserved(Top.res.remaining)
\* C4 as amended: the equality holds at every origin a frame tries (with the
\* frame's hand), after a recursive call returned without success, and after
\* play_word returns Remaining or Finished; after Overused the board holds one
\* cell more of the overused letter than the returned hand accounts for.
C4_TilesConserved ==
  /\ pc \in {"enter", "word", "try"} => Conserved(Top.letters)
  /\ pc = "returned" => Conserved(Top.res.remaining)
  /\ AfterPlayWord /\ Top.res.usage # "Overused" => Conserved(Top.res.remaining)
  /\ AfterPlayWord /\ Top.res.usage = "Overused" =>
       \A x \in Letters :
         CountOnBoard(board, x) + Top.res.remaining[x]
           = available_letters[x] + (IF x = OveruseLetter THEN 1 ELSE 0)
\* play_word returned Overused after writing two cells, in a frame below the first.
C4_Witness ==
  AfterPlayWord /\ Top.res.usage = "Overused" /\ Len(Top.res.played) = 2 /\ Top.depth >= 1

\* C5 as stated: the bounding box of the running frame, and the one returned
\* with a solved board, is the minimal rectangle containing the occupied cells.
C5_AsStated ==
  /\ pc \in {"enter", "word", "try"} => BoxOf(Top) = MinimalBox(board)
  /\ Solved => BoxOf(result) = MinimalBox(board)

\* No single word of the dictionary uses the whole hand.
NoWordUsesTheHand ==
  \A i \in 1 .. Len(dictionary) :
    ~(Contained(dictionary[i], available_letters)
      /\ Len(dictionary[i]) = Total(available_letters))
C8_NothingMakeable ==
  (\A i \in 1 .. Len(dictionary) : ~Contained(dictionary[i], available_letters)) =>
    /\ pc \in {"start", "done"}
    /\ board = <<>>
    /\ calls = 0
    /\ words_checked = 0
    /\ pc = "done" => result.kind = "None"
\* No solution was returned for a dictionary of three words, none makeable.
C8_Witness ==
  /\ pc = "done" /\ result.kind = "None" /\ Len(dictionary) = 3
  /\ \A i \in 1 .. Len(dictionary) : ~Contained(dictionary[i], available_letters)

\* C3: play_word followed by undo_play of the cells it returned leaves every
\* board cell and every histogram counter as before the call, for every outcome.
C3_PlayThenUndoRestores ==
  t.op = "play_word" /\ t.stage = "undone" =>
    board = t.board0 /\ letters_on_board = t.letters_on_board0
\* Undone after a rejection for a letter conflict that came after a cell was written.
C3_Witness ==
  /\ t.op = "play_word" /\ t.stage = "undone"
  /\ ~t.res.ok /\ t.res.usage = "Remaining" /\ Len(t.res.played) >= 1

\* C6: play_word changes only cells of the word's span that were empty at the
\* call; undo_play sets exactly the listed cells to EMPTY, lowers each letter's
\* counter by the number of listed cells that held it, and changes nothing else.
C6_OnlyTheWrittenCells ==
  t.op = "play_word" =>
    /\ t.stage \in {"played", "undone"} =>
         \A c \in Cells :
           get_val(t.board1, c[1], c[2]) # get_val(t.board0, c[1], c[2]) =>
             /\ c \in SpanCells(t.word, t.row_idx, t.col_idx, t.direction)
             /\ get_val(t.board0, c[1], c[2]) = EMPTY_VALUE
    /\ t.stage = "undone" =>
         /\ \A c \in Cells :
              get_val(board, c[1], c[2]) =
                IF c \in Range(t.res.played) THEN EMPTY_VALUE
                ELSE get_val(t.board1, c[1], c[2])
         /\ \A x \in Letters :
              letters_on_board[x] =
                t.letters_on_board1[x]
                  - Cardinality({c \in Range(t.res.played) : get_val(t.board1, c[1], c[2]) = x})
\* Undone after an accepted play that wrote some cells and crossed a matching tile.
C6_Witness ==
  /\ t.op = "play_word" /\ t.stage = "undone" /\ t.res.ok
  /\ Len(t.res.played) >= 1 /\ Len(t.res.played) < Len(t.word)

\* The board the triples of a record write onto an empty board, triple by triple.
RECURSIVE Replay(_, _, _)
Replay(bytes, k, brd) ==
  IF k + 2 > Len(bytes) - 1 THEN brd
  ELSE Replay(bytes, k + 3, set_val(brd, bytes[k], bytes[k + 1], bytes[k + 2]))
\* The cells (row, col) of a record's triples, in the order of the record.
TripleCells(bytes) == [j \in 1 .. ((Len(bytes) - 1) \div 3) |-> <<bytes[3 * j - 2], bytes[3 * j - 1]>>]
\* C9: for a board whose occupied cells lie in the given box, board_to_bytes
\* gives one (row, col, letter) triple per occupied cell in row-major order and
\* then one byte 255; replaying the triples onto an empty board gives the
\* board back, and no byte of a triple is 255.
C9_RecordRoundTrip ==
  t.op = "board_to_bytes" /\ t.stage = "encoded" =>
    /\ Len(t.bytes) = 3 * Cardinality(Occupied(board)) + 1
    /\ t.bytes[Len(t.bytes)] = END_OF_BOARD
    /\ \A k \in 1 .. (Len(t.bytes) - 1) : t.bytes[k] # END_OF_BOARD
    /\ Replay(t.bytes, 1, NewBoard) = board
    /\ \A i, j \in DOMAIN TripleCells(t.bytes) :
         i < j => \/ TripleCells(t.bytes)[i][1] < TripleCells(t.bytes)[j][1]
                  \/ /\ TripleCells(t.bytes)[i][1] = TripleCells(t.bytes)[j][1]
                     /\ TripleCells(t.bytes)[i][2] < TripleCells(t.bytes)[j][2]
\* A record of three tiles in two rows, encoded over a box one column too wide.
C9_Witness ==
  /\ t.op = "board_to_bytes" /\ t.stage = "encoded" /\ Len(t.bytes) = 10
  /\ t.box.max_col > MinimalBox(board).max_col
  /\ t.box.min_row < t.box.max_row

\* C10: is_makeable(word, hand) is true exactly when every letter occurs in the
\* word at most as often as in the hand; every permutation of the word gives the
\* same answer; the caller's word and hand are as before the call.
C10_MakeableIsContainment ==
  t.op = "is_makeable" /\ t.stage = "returned" =>
    /\ t.makeable = Contained(t.word, t.letters)
    /\ \A other \in AllWords :
         (\A x \in Letters : Occurrences(other, x) = Occurrences(t.word, x))
           => is_makeable(other, t.letters) = t.makeable
    /\ t.word = t.word0 /\ t.letters = t.letters0
\* A word with a repeated letter found not makeable from a hand holding that letter once.
C10_Witness ==
  /\ t.op = "is_makeable" /\ t.stage = "returned" /\ ~t.makeable
  /\ \E x \in Letters : Occurrences(t.word, x) = 2 /\ t.letters[x] = 1
  /\ \A x \in Letters : Occurrences(t.word, x) > 0 => t.letters[x] > 0

\* Some cell of the word at the given origin would lie outside the grid.
LeavesTheGrid(word, row_idx, col_idx, direction) ==
  \E c \in SpanCells(word, row_idx, col_idx, direction) :
    c[1] > BOARD_SIZE - 1 \/ c[2] > BOARD_SIZE - 1
OccupiedCell(brd, cell) == cell \in Cells /\ Filled(brd, cell)
\* The site touches an existing tile: before the word's first cell, after its
\* last cell, or beside some cell of its span.
TouchesATile(brd, word, row_idx, col_idx, direction) ==
  \/ OccupiedCell(brd, CellBefore(row_idx, col_idx, direction))
  \/ OccupiedCell(brd, CellAfter(word, row_idx, col_idx, direction))
  \/ \E k \in 0 .. (Len(word) - 1) :
       \/ OccupiedCell(brd, SideHigh(row_idx, col_idx, direction, k))
       \/ OccupiedCell(brd, SideLow(row_idx, col_idx, direction, k))
\* C12 as stated: an in-bounds placement is rejected with no cell written when
\* the site touches no tile before, after or beside the word, and only then: a
\* word on empty cells whose site touches a tile is written.
C12_AsStated ==
  t.op = "play_word" /\ t.stage = "played" =>
    LET touches == TouchesATile(t.board0, t.word, t.row_idx, t.col_idx, t.direction)
        on_empty == \A c \in SpanCells(t.word, t.row_idx, t.col_idx, t.direction) :
                      ~Filled(t.board0, c)
    IN /\ ~touches => ~t.res.ok /\ t.res.played = <<>> /\ t.board1 = t.board0
       /\ touches /\ on_empty => t.res.played # <<>>

HasEnded(how) == \E i \in 1 .. Len(ended) : ended[i] = how
\* The board that holds nothing but `word`, centred on row BOARD_SIZE / 2.
RootOnly(word) ==
  LET first == (BOARD_SIZE \div 2) - (Len(word) \div 2)
  IN [k \in 0 .. (BOARD_SIZE * BOARD_SIZE - 1) |->
        IF k \div BOARD_SIZE = BOARD_SIZE \div 2
           /\ (k % BOARD_SIZE) - first \in 0 .. (Len(word) - 1)
        THEN word[(k % BOARD_SIZE) - first + 1]
        ELSE EMPTY_VALUE]
\* C14: an attempt that play_further ended with an error does not stop
\* play_bananagrams: every makeable root word is tried until one succeeds, and
\* each attempt starts from a board holding only its root word, centred, with
\* a histogram counting just that word and the supplied hand less that word.
C14_AbortedAttemptLeavesNothing ==
  /\ pc = "enter" /\ Len(stack) = 1 =>
       /\ word_num = Len(ended) + 1
       /\ board = RootOnly(valid_words_vec[word_num])
       /\ \A x \in Letters :
            /\ letters_on_board[x] = Occurrences(valid_words_vec[word_num], x)
            /\ Top.letters[x] = available_letters[x] - Occurrences(valid_words_vec[word_num], x)
  /\ pc = "done" /\ result.kind = "None" => Len(ended) = Len(valid_words_vec)
\* A board solved under a later root word after an attempt ended OutOfBounds.
C14_Witness ==
  Solved /\ LastEnded = "Solved" /\ ended[1] = "OutOfBounds"

\* C15 as stated: the ceiling is per root-word attempt, so the budget a root
\* word finds when its search begins is not reduced by the attempts before it:
\* the first frame of every root word is within the ceiling and is searched.
C15_AsStated ==
  pc = "enter" /\ Len(stack) = 1 =>
    ~CeilingExceeded(words_checked, maximum_words_checked)

\* ------------------------------------------------------ main: the workers
\* The boards a worker must generate (500 in the source; scaled down here).
NUMBER_OF_BOARDS_TO_GENERATE == 2
\* The largest number of workers (available_parallelism in the source).
MaxWorkers == 2
\* The largest number of loop iterations followed for one worker.
MaxIterations == 3

\* What play_bananagrams returns when `word` alone uses the hand: the board and
\* its bounding box.
RootAloneResult(word) ==
  LET col_start == (BOARD_SIZE \div 2) - (Len(word) \div 2)
      row == BOARD_SIZE \div 2
  IN [kind |-> "Some",
      board |-> place_root(word, 1, row, col_start, NewBoard, ZeroLetters,
                           [x \in Letters |-> Occurrences(word, x)]).board,
      min_col |-> col_start, max_col |-> col_start + (Len(word) - 1),
      min_row |-> row, max_row |-> row]
\* The results of play_bananagrams a worker's loop is run with: None, or a board.
SolveResults ==
  {[kind |-> "None"]} \cup {RootAloneResult(WordUniverse[i]) : i \in {1, 3}}
\* A file name that leaves the worker's number out.
FileName_shared(thread_num) == <<"data/", "_board4.bgb">>
\* "format!("data/{}_board4.bgb", thread_num)".
FileName(thread_num) == <<"data/", thread_num, "_board4.bgb">>

InitMain ==
  /\ NoSolve
  /\ board = <<>>
  /\ letters_on_board = <<>>
  /\ \E n \in 1 .. MaxWorkers :
       t = [op |-> "main",
            boards_generated |-> [w \in 0 .. (n - 1) |-> 0],
            all_board_bytes |-> [w \in 0 .. (n - 1) |-> <<>>],
            at |-> [w \in 0 .. (n - 1) |-> "while"],
            iterations |-> [w \in 0 .. (n - 1) |-> 0],
            records |-> [w \in 0 .. (n - 1) |-> <<>>],
            last |-> [thread_num |-> 0, res |-> "none", before |-> <<>>, count |-> 0],
            writes |-> <<>>]

\* One iteration of a worker's while loop: a hand is drawn and solved; a board
\* is encoded onto the worker's buffer and counted, None changes nothing.
LoopIteration(thread_num) ==
  /\ t.op = "main"
  /\ t.at[thread_num] = "while"
  /\ t.boards_generated[thread_num] < NUMBER_OF_BOARDS_TO_GENERATE
  /\ t.iterations[thread_num] < MaxIterations
  /\ \E res \in SolveResults :
       LET bytes == board_to_bytes(res.board, res.min_col, res.max_col,
                                   res.min_row, res.max_row)
           seen == [t EXCEPT !.iterations[thread_num] = @ + 1,
                             !.last = [thread_num |-> thread_num, res |-> res.kind,
                                       before |-> t.all_board_bytes[thread_num],
                                       count |-> t.boards_generated[thread_num]]]
       IN IF res.kind = "Some"
          THEN t' = [seen EXCEPT !.all_board_bytes[thread_num] = @ \o bytes,
                                 !.boards_generated[thread_num] = @ + 1,
                                 !.records[thread_num] = Append(@, bytes)]
          ELSE t' = seen
  /\ UNCHANGED <<solve_vars, board, letters_on_board>>

\* The fs::write that follows the loop.
WriteShard(thread_num) ==
  /\ t.op = "main"
  /\ t.at[thread_num] = "while"
  /\ ~(t.boards_generated[thread_num] < NUMBER_OF_BOARDS_TO_GENERATE)
  /\ t' = [t EXCEPT !.at[thread_num] = "done",
                    !.writes = Append(@, [name |-> FileName(thread_num),
                                          bytes |-> t.all_board_bytes[thread_num],
                                          thread_num |-> thread_num])]
  /\ UNCHANGED <<solve_vars, board, letters_on_board>>

NextMain == \E thread_num \in DOMAIN t.at : LoopIteration(thread_num) \/ WriteShard(thread_num)
SpecMain == InitMain /\ [][NextMain]_vars

\* The records of a sequence of records, one after the other.
RECURSIVE Concatenated(_)
Concatenated(records) ==
  IF records = <<>> THEN <<>> ELSE Head(records) \o Concatenated(Tail(records))
\* The number of bytes 255 in a sequence of bytes.
Sentinels(bytes) == Cardinality({k \in 1 .. Len(bytes) : bytes[k] = END_OF_BOARD})
\* C16: in each worker, a failed solve leaves the count and the buffer as they
\* were; a successful one appends one record ending in its only 255 and adds one
\* to the count; the shard is written once, when the count is the target, holds
\* the target number of records in the order solved, and no two workers write
\* to the same file name.
C16_WorkerStream ==
  t.op = "main" =>
    /\ t.last.res = "None" =>
         /\ t.all_board_bytes[t.last.thread_num] = t.last.before
         /\ t.boards_generated[t.last.thread_num] = t.last.count
    /\ t.last.res = "Some" =>
         LET mine == t.records[t.last.thread_num]
             record == mine[Len(mine)]
         IN /\ t.all_board_bytes[t.last.thread_num] = t.last.before \o record
            /\ t.boards_generated[t.last.thread_num] = t.last.count + 1
            /\ Sentinels(record) = 1 /\ record[Len(record)] = END_OF_BOARD
    /\ \A thread_num \in DOMAIN t.at :
         Cardinality({i \in 1 .. Len(t.writes) : t.writes[i].thread_num = thread_num})
           = IF t.at[thread_num] = "done" THEN 1 ELSE 0
    /\ \A i \in 1 .. Len(t.writes) :
         LET mine == t.records[t.writes[i].thread_num]
         IN /\ t.boards_generated[t.writes[i].thread_num] = NUMBER_OF_BOARDS_TO_GENERATE
            /\ Len(mine) = NUMBER_OF_BOARDS_TO_GENERATE
            /\ t.writes[i].bytes = Concatenated(mine)
            /\ Sentinels(t.writes[i].bytes) = NUMBER_OF_BOARDS_TO_GENERATE
    /\ \A i, j \in 1 .. Len(t.writes) : i # j => t.writes[i].name # t.writes[j].name
\* Two workers have written their shards, one of them after a failed solve, and
\* the two shards hold different boards first.
C16_Witness ==
  /\ t.op = "main" /\ Len(t.writes) = 2
  /\ \E thread_num \in DOMAIN t.at : t.iterations[thread_num] > NUMBER_OF_BOARDS_TO_GENERATE
  /\ t.records[0][1] # t.records[1][1]

\* ------------------------------------------------------------ C17
\* The cells the root placement of play_bananagrams writes for `word`.
RootCells(word) ==
  {<<BOARD_SIZE \div 2, (BOARD_SIZE \div 2) - (Len(word) \div 2) + k>> : k \in 0 .. (Len(word) - 1)}
\* The cells a validity scanner may read for the play of the top frame: its
\* lines and positions stay between the bounds of the new bounding box.
ScannedCells(f) ==
  (NewBox(f).min_row .. NewBox(f).max_row) \X (NewBox(f).min_col .. NewBox(f).max_col)
\* The top frame's call of play_word goes past its bound test.
PassesBoundTest(f) == ~OutOfBounds(Candidate(f), RowOf(f), ColOf(f), Direction(f))

\* C17: every board access of a solve uses a row and a column in [0, L): the
\* origins play_further generates, the cells play_word probes and writes at
\* them, the cells the validity scanners read, the cells undo_play clears and
\* the cells of the root placement; no origin comes from a wrapped subtraction.
C17_AccessesStayInTheGrid ==
  /\ pc \notin {"undefined", "panic"}
  /\ (pc = "root" /\ word_num <= Len(valid_words_vec))
       => RootCells(valid_words_vec[word_num]) \subseteq Cells
  /\ pc = "try"
       => /\ <<RowOf(Top), ColOf(Top)>> \in Cells
          /\ PassesBoundTest(Top)
               => /\ ProbedCells(Candidate(Top), RowOf(Top), ColOf(Top), Direction(Top))
                       \subseteq Cells
                  /\ SpanCells(Candidate(Top), RowOf(Top), ColOf(Top), Direction(Top))
                       \subseteq Cells
  /\ pc = "played"
       => /\ Range(Top.res.played) \subseteq Cells
          /\ Top.res.ok => ScannedCells(Top) \subseteq Cells
  /\ pc = "returned" => Range(Top.res.played) \subseteq Cells
\* A horizontal word is played on the row next to the last one, so play_word
\* reads the cells of the grid's last row below it.
C17_Witness ==
  /\ pc = "try"
  /\ Direction(Top) = "Horizontal"
  /\ RowOf(Top) = BOARD_SIZE - 2
  /\ PassesBoundTest(Top)
  /\ \E c \in ProbedCells(Candidate(Top), RowOf(Top), ColOf(Top), Direction(Top)) :
       c[1] = BOARD_SIZE - 1

\* ------------------------------------------------------------ C18
\* The refilter of play_further's Remaining arm, called directly on the state of
\* a depth-0 frame after an accepted, valid play: the board held the root word
\* alone, the frame's hand `letters` is what the root word left, its candidates
\* are the words from the root word on that passed check_filter_after_play, and
\* the play of `word` put the tiles `placed` on the board, crossing at most one
\* letter of the root word and leaving tiles in the hand.
RefilterWords == << <<2, 0, 1>>, <<0, 0, 1>>, <<0, 1>> >>
HistogramOf(word) == [x \in Letters |-> Occurrences(word, x)]
RootCandidates(root, letters) ==
  SelectSeq(SubSeq(RefilterWords, root, Len(RefilterWords)),
            LAMBDA w : check_filter_after_play(letters, w, Range(RefilterWords[root])))
Placements(word, letters, on_board) ==
  {placed \in AllHands :
     /\ Total(placed) >= 1
     /\ Total(placed) >= Len(word) - 1
     /\ Total(placed) < Total(letters)
     /\ \A x \in Letters :
          /\ placed[x] <= Occurrences(word, x)
          /\ placed[x] <= letters[x]
          /\ Occurrences(word, x) - placed[x] <= on_board[x]}

InitRefilter ==
  /\ NoSolve
  /\ board = <<>>
  /\ \E root \in 1 .. Len(RefilterWords), letters \in AllHands :
       \E w \in 1 .. Len(RootCandidates(root, letters)) :
         \E placed \in Placements(RootCandidates(root, letters)[w], letters,
                                  HistogramOf(RefilterWords[root])) :
           /\ letters_on_board = [x \in Letters |->
                                    Occurrences(RefilterWords[root], x) + placed[x]]
           /\ t = [op |-> "refilter", stage |-> "played",
                   valid_words_vec |-> RootCandidates(root, letters), w |-> w,
                   letters |-> letters,
                   remaining |-> [x \in Letters |-> letters[x] - placed[x]],
                   new_valid_words_vec |-> <<>>]

\* Lines 552-557 (and 600-605, 649-654, 697-702): the candidates for the
\* recursive call.
CallRefilter ==
  /\ t.op = "refilter" /\ t.stage = "played"
  /\ t' = [t EXCEPT !.stage = "filtered",
                    !.new_valid_words_vec = NewValidWordsVec(t, letters_on_board)]
  /\ UNCHANGED <<solve_vars, board, letters_on_board>>

NextRefilter == CallRefilter
SpecRefilter == InitRefilter /\ [][NextRefilter]_vars

\* C18: the candidate list handed to the recursive play_further call is the
\* caller's list filtered against the hand play_word returned (the hand after
\* the placement) and the on-board histogram after the placement.
C18_AsStated ==
  (t.op = "refilter" /\ t.stage = "filtered")
    => t.new_valid_words_vec
         = SelectSeq(t.valid_words_vec,
                     LAMBDA w : check_filter_after_play_later(t.remaining, letters_on_board, w))

\* ------------------------------------------------------------ C19
\* check_filter_after_play_later called directly on every word of at most
\* MaxTestWordLen letters, every hand and every on-board histogram with at most
\* MaxPerLetter of a letter.  The two arrays are passed by value: the callee
\* works on its own copies and the caller's are as before.
InitFilterLater ==
  /\ NoSolve
  /\ board = <<>>
  /\ letters_on_board \in AllHands
  /\ \E word \in AllWords, letters \in AllHands :
       t = [op |-> "check_filter_after_play_later", stage |-> "before",
            current_letters |-> letters, board_letters |-> letters_on_board,
            word_being_checked |-> word, passes |-> FALSE]

CallFilterLater ==
  /\ t.op = "check_filter_after_play_later" /\ t.stage = "before"
  /\ t' = [t EXCEPT !.stage = "returned",
                    !.passes = check_filter_after_play_later(t.current_letters, letters_on_board,
                                                             t.word_being_checked)]
  /\ UNCHANGED <<solve_vars, board, letters_on_board>>

NextFilterLater == CallFilterLater
SpecFilterLater == InitFilterLater /\ [][NextFilterLater]_vars

\* d(x): the copies of letter x the word needs beyond the hand's.
Deficit(word, hand, x) == Max(0, Occurrences(word, x) - hand[x])
\* Total(d) is at most the budget and no d(x) exceeds the board's count of x.
WithinBudgetAndBoard(word, hand, on_board) ==
  /\ SumOver([x \in Letters |-> Deficit(word, hand, x)], Letters) <= FILTER_LETTERS_ON_BOARD
  /\ \A x \in Letters : Deficit(word, hand, x) <= on_board[x]
\* Two words made of the same letters, in any order.
SameLetters(v, w) == \A x \in Letters : Occurrences(v, x) = Occurrences(w, x)

\* C19: check_filter_after_play_later returns true exactly when the sum of the
\* deficits d(x) is at most the budget of 2 and d(x) <= on_board[x] for every
\* letter x; any reordering of the word's letters gets the same answer; the
\* caller's hand and histogram are what they were before the call.
C19_FilterLaterIsBudgetedDeficit ==
  (t.op = "check_filter_after_play_later" /\ t.stage = "returned") =>
    /\ t.passes <=> WithinBudgetAndBoard(t.word_being_checked, t.current_letters,
                                          letters_on_board)
    /\ \A v \in AllWords :
         SameLetters(v, t.word_being_checked)
           => check_filter_after_play_later(t.current_letters, letters_on_board, v) = t.passes
    /\ t.board_letters = letters_on_board
\* A word passes with the whole budget drawn from the board, one letter of it
\* twice, although the hand holds other letters of the word.
C19_Witness ==
  /\ t.op = "check_filter_after_play_later" /\ t.stage = "returned"
  /\ t.passes
  /\ \E x \in Letters : Deficit(t.word_being_checked, t.current_letters, x) = 2
  /\ \E x \in Letters : Occurrences(t.word_being_checked, x) > 0 /\ t.current_letters[x] > 0

\* ------------------------------------------------------------ C20
\* The letter frame f's candidate has at `cell` when played at f's origin.
LetterAt(f, cell) ==
  Candidate(f)[(IF Direction(f) = "Horizontal" THEN cell[2] - ColOf(f) ELSE cell[1] - RowOf(f)) + 1]
\* `brd` with the cells frame f's play wrote.
WithPlayOf(brd, f) ==
  [k \in DOMAIN brd |->
     IF \E j \in 1 .. Len(f.res.played) : Index(f.res.played[j][1], f.res.played[j][2]) = k
     THEN LetterAt(f, CHOOSE c \in Range(f.res.played) : Index(c[1], c[2]) = k)
     ELSE brd[k]]
\* The board a frame called from frame k is entered with: the root word and, on
\* top of it, the one play each of the frames 1 .. k has standing.
RECURSIVE BoardUnder(_)
BoardUnder(k) ==
  IF k = 0 THEN RootOnly(valid_words_vec[word_num])
  ELSE WithPlayOf(BoardUnder(k - 1), stack[k])

\* C20: at every point where the top frame is about to try a candidate, and at
\* every play_word call it makes, the board and the histogram are those the
\* frame was entered with (the root word and the standing plays of its callers):
\* every earlier attempt of the frame has been undone; and when a recursive call
\* returns without success the board and histogram are those it was entered with.
C20_SiblingsSeeTheEntryState ==
  /\ pc \in {"enter", "word", "try"}
       => /\ board = BoardUnder(Len(stack) - 1)
          /\ letters_on_board = Histogram(BoardUnder(Len(stack) - 1))
  /\ pc = "returned"
       => /\ board = BoardUnder(Len(stack))
          /\ letters_on_board = Histogram(BoardUnder(Len(stack)))
\* A recursive call made from a frame that is itself a recursive call has
\* returned without success, after trying plays of its own.
C20_Witness ==
  /\ pc = "returned"
  /\ Len(stack) >= 2
  /\ Len(Top.res.played) >= 1
  /\ calls >= 4

\* ------------------------------------------------------------ C21
\* The attempt counter stands above the ceiling.
OverTheCeiling == words_checked > maximum_words_checked
FirstDirection(depth) == IF depth % 2 = 1 THEN "Horizontal" ELSE "Vertical"
SecondDirection(depth) == IF depth % 2 = 1 THEN "Vertical" ELSE "Horizontal"
\* The top frame has gone through every candidate of its current pass.
PassOver == pc = "word" /\ Top.w > Len(Top.valid_words_vec)

\* C22: a frame's play_word calls are in its first direction (horizontal at odd
\* depth, vertical at even depth) for every candidate word and every origin,
\* and only then in its second direction: the frame leaves its first pass only
\* when every candidate has been tried, never goes back to it, and the frames
\* under it wait in the pass they were in.  The frame at depth 0 has no second
\* pass: no horizontal play is tried in it, and the end of its vertical pass is
\* the attempt's ordinary "no success".
C22_PassOrder ==
  /\ [](pc = "try" =>
          /\ Top.pass \in {1, 2}
          /\ Top.pass = 1 => Direction(Top) = FirstDirection(Top.depth)
          /\ Top.pass = 2 => Direction(Top) = SecondDirection(Top.depth)
          /\ Top.depth = 0 => Top.pass = 1 /\ Direction(Top) = "Vertical")
  /\ [][/\ \A i \in 1 .. Len(stack) :
             i <= Len(stack') =>
               /\ stack'[i].depth = stack[i].depth
               /\ stack'[i].pass >= stack[i].pass
               /\ i < Len(stack) => stack'[i] = stack[i]
               /\ stack'[i].pass # stack[i].pass => PassOver /\ stack'[i].w = 1
        /\ (PassOver /\ Top.depth = 0) => ended' = Append(ended, "NoSuccess")
        /\ (PassOver /\ Top.depth # 0 /\ Top.pass = 1)
             => Len(stack') = Len(stack) /\ Top'.pass = 2]_vars
\* A frame at depth 1 tries a vertical play, its horizontal pass being over.
C22_Witness ==
  /\ pc = "try"
  /\ Top.pass = 2
  /\ Top.depth = 1
  /\ Direction(Top) = "Vertical"

\* ------------------------------------------------------------ C23
\* Two cells that share a side.
Adjacent(c, d) ==
  \/ c[1] = d[1] /\ (c[2] = d[2] + 1 \/ d[2] = c[2] + 1)
  \/ c[2] = d[2] /\ (c[1] = d[1] + 1 \/ d[1] = c[1] + 1)
\* The cells of S that can be walked to from the cells of R through cells of S.
RECURSIVE Group(_, _)
Group(R, S) ==
  LET more == R \cup {s \in S : \E r \in R : Adjacent(r, s)}
  IN IF more = R THEN R ELSE Group(more, S)
\* S is one group under 4-neighbour adjacency.
Connected(S) == S = {} \/ Group({CHOOSE c \in S : TRUE}, S) = S

\* C23: the tiles on the board form one group under 4-neighbour adjacency after
\* the root word is placed, after every play_word call that reports success,
\* and so on every board play_bananagrams returns.
C23_OneGroup ==
  /\ (pc = "enter" /\ Len(stack) = 1) => Connected(Occupied(board))
  /\ (pc = "played" /\ Top.res.ok) => Connected(Occupied(board))
  /\ Solved => Connected(Occupied(board))
\* A second successful placement, at depth 1 or below, on a board of five tiles
\* or more.
C23_Witness ==
  /\ pc = "played" /\ Top.res.ok
  /\ Top.depth >= 1
  /\ Len(Top.res.played) >= 1
  /\ Cardinality(Occupied(board)) >= 5

\* ------------------------------------------------------------ C24
\* C24: from the root placement on, after every play_word call (whatever it
\* returns) and every undo_play, each counter of the on-board histogram is the
\* number of cells that hold its letter, and no counter is below zero.
C24_HistogramMirrorsTheBoard ==
  board # <<>> =>
    \A x \in Letters :
      /\ letters_on_board[x] = CountOnBoard(board, x)
      /\ letters_on_board[x] >= 0
\* The frame's last play wrote two cells or more and has been undone; the next
\* origin is about to be tried.
C24_Witness ==
  /\ pc = "try"
  /\ Len(Top.res.played) >= 2
  /\ \A j \in 1 .. Len(Top.res.played) :
       get_val(board, Top.res.played[j][1], Top.res.played[j][2]) = EMPTY_VALUE

\* ------------------------------------------------------------ C25
\* The validity scanners called directly, as play_further calls them: on a board
\* whose runs are all in the word set, with a bounding box that holds its tiles
\* (the smallest one, or one a column or a row wider at its far side), a word is
\* played by play_word; when that reports success the scanner of the word's
\* direction is called with the word's coordinates and the box grown to the
\* play, and otherwise the play is undone.
ScanWords == TestWords
ScanAnchors == {0, BOARD_SIZE \div 3}
ScanBoards(anchor) == {brd \in TestBoards(anchor) \ {NewBoard} : AllRunsIn(brd, ScanWords)}
ScanRows(anchor) == IF anchor = 0 THEN 0 .. 2 ELSE (BOARD_SIZE - 3) .. (BOARD_SIZE - 1)
ScanCols(anchor) == Max(0, anchor - 2) .. (anchor + 3)
PlentyOfTiles == [x \in Letters |-> MaxPerLetter]
\* Lines 539-542 (and 592-595): the box grown to the play.
GrownBox(box, word, row_idx, col_idx, direction) ==
  IF direction = "Horizontal"
  THEN [min_col |-> Min(box.min_col, col_idx), max_col |-> Max(box.max_col, col_idx + Len(word)),
        min_row |-> Min(box.min_row, row_idx), max_row |-> Max(box.max_row, row_idx)]
  ELSE [min_col |-> Min(box.min_col, col_idx), max_col |-> Max(box.max_col, col_idx),
        min_row |-> Min(box.min_row, row_idx), max_row |-> Max(box.max_row, row_idx + Len(word))]

InitScan ==
  /\ NoSolve
  /\ \E anchor \in ScanAnchors :
       /\ board \in ScanBoards(anchor)
       /\ letters_on_board = Histogram(board)
       /\ t \in [op : {"scan"}, stage : {"before"}, word : ScanWords,
                 row_idx : ScanRows(anchor), col_idx : ScanCols(anchor),
                 direction : {"Horizontal", "Vertical"},
                 box : TestBoxes(board), valid : {FALSE}]

\* The call of play_word, and the undo_play that follows a refused play.
PlayForScan ==
  /\ t.op = "scan" /\ t.stage = "before"
  /\ LET res == play_word(t.word, t.row_idx, t.col_idx, board, t.direction, PlentyOfTiles,
                          letters_on_board)
         undone == undo_play(res.board, res.played, res.letters_on_board)
     IN /\ ~res.undefined
        /\ IF res.err
           THEN /\ t' = [t EXCEPT !.stage = "err"]
                /\ UNCHANGED <<board, letters_on_board>>
           ELSE IF res.ok
           THEN /\ t' = [t EXCEPT !.stage = "placed",
                                  !.box = GrownBox(t.box, t.word, t.row_idx, t.col_idx,
                                                   t.direction)]
                /\ board' = res.board
                /\ letters_on_board' = res.letters_on_board
           ELSE /\ t' = [t EXCEPT !.stage = "refused"]
                /\ board' = undone.board
                /\ letters_on_board' = undone.letters_on_board
  /\ UNCHANGED solve_vars

\* The call of is_board_valid_horizontal or is_board_valid_vertical.
CallScanner ==
  /\ t.op = "scan" /\ t.stage = "placed"
  /\ t' = [t EXCEPT !.stage = "scanned",
                    !.valid =
                      IF t.direction = "Horizontal"
                      THEN is_board_valid_horizontal(board, t.box.min_col, t.box.max_col,
                                                     t.box.min_row, t.box.max_row, t.row_idx,
                                                     t.col_idx, t.col_idx + Len(t.word) - 1,
                                                     ScanWords)
                      ELSE is_board_valid_vertical(board, t.box.min_col, t.box.max_col,
                                                   t.box.min_row, t.box.max_row, t.row_idx,
                                                   t.row_idx + Len(t.word) - 1, t.col_idx,
                                                   ScanWords)]
  /\ UNCHANGED <<solve_vars, board, letters_on_board>>

NextScan == PlayForScan \/ CallScanner
SpecScan == InitScan /\ [][NextScan]_vars

\* The box holds every tile of the board.
HoldsTheTiles(box, brd) ==
  \A c \in Occupied(brd) :
    c[1] \in box.min_row .. box.max_row /\ c[2] \in box.min_col .. box.max_col
\* The run of the played word's own line, and a run across it through one of
\* its cells: the maximal run of `line` that holds position `at`.
RunThrough(brd, line, is_row, at) ==
  LET from == CHOOSE a \in 0 .. at :
                /\ \A idx \in a .. at : Filled(brd, LineCell(line, idx, is_row))
                /\ a = 0 \/ ~Filled(brd, LineCell(line, a - 1, is_row))
      to == CHOOSE b \in at .. (BOARD_SIZE - 1) :
              /\ \A idx \in at .. b : Filled(brd, LineCell(line, idx, is_row))
              /\ b = BOARD_SIZE - 1 \/ ~Filled(brd, LineCell(line, b + 1, is_row))
  IN RunLetters(brd, line, is_row, from, to)
\* The run along the word just played.
OwnRun ==
  RunThrough(board, IF t.direction = "Horizontal" THEN t.row_idx ELSE t.col_idx,
             t.direction = "Horizontal",
             IF t.direction = "Horizontal" THEN t.col_idx ELSE t.row_idx)

\* C25: for a board all of whose runs were in the word set before the latest
\* placement and a bounding box holding all its tiles, the scanner of the
\* word's direction, called with the word's coordinates, answers as a rescan of
\* every row and every column does: true exactly when every maximal run of two
\* or more cells of the whole board is in the word set.
C25_ScannerEqualsRescan ==
  (t.op = "scan" /\ t.stage = "scanned") =>
    /\ HoldsTheTiles(t.box, board)
    /\ t.valid <=> AllRunsIn(board, ScanWords)
\* A horizontal word is placed right after a tile of its row: the run of the row
\* begins before the word's first cell, is no word, and the scanner refuses.
C25_Witness ==
  /\ t.op = "scan" /\ t.stage = "scanned"
  /\ t.direction = "Horizontal"
  /\ t.col_idx > 0 /\ Filled(board, <<t.row_idx, t.col_idx - 1>>)
  /\ Len(OwnRun) > Len(t.word)
  /\ OwnRun \notin ScanWords
  /\ ~t.valid

\* ------------------------------------------------------------ C26
\* The words of the dictionary that the original hand can make, in its order.
MakeableWords == SelectSeq(dictionary, LAMBDA w : Contained(w, available_letters))
\* The hand less the letters of `word`.
HandLess(hand, word) == [x \in Letters |-> hand[x] - Occurrences(word, x)]
\* `word` can be built from `hand` and at most one more letter, one of `root`'s.
BuildableWithOneOf(word, hand, root) ==
  /\ SumOver([x \in Letters |-> Deficit(word, hand, x)], Letters) <= 1
  /\ \A x \in Letters : Deficit(word, hand, x) > 0 => x \in Range(root)
\* a is b with some of its elements left out, the others in b's order.
RECURSIVE IsSublist(_, _)
IsSublist(a, b) ==
  IF a = <<>> THEN TRUE
  ELSE IF b = <<>> THEN FALSE
  ELSE IF Head(a) = Head(b) THEN IsSublist(Tail(a), Tail(b))
  ELSE IsSublist(a, Tail(b))

\* C26: while root word number k of the makeable words is being searched, the
\* candidates of the frame at depth 0 are the makeable words from position k on
\* that can be built from the hand the root word left and at most one more
\* letter, a letter of the root word; no earlier root word is among them, and
\* each deeper frame's candidates are a sublist of its caller's, in its order.
C26_CandidateLists ==
  Len(stack) >= 1 =>
    LET root == MakeableWords[word_num]
        hand == HandLess(available_letters, root)
    IN /\ valid_words_vec = MakeableWords
       /\ stack[1].letters = hand
       /\ stack[1].valid_words_vec
            = SelectSeq(SubSeq(MakeableWords, word_num, Len(MakeableWords)),
                        LAMBDA w : BuildableWithOneOf(w, hand, root))
       /\ \A k \in 1 .. (word_num - 1) :
            MakeableWords[k] \notin Range(stack[1].valid_words_vec)
       /\ \A i \in 2 .. Len(stack) :
            IsSublist(stack[i].valid_words_vec, stack[i - 1].valid_words_vec)
\* Under a later root word, the depth-0 frame holds a candidate that borrows a
\* letter of the root word, a makeable word after the root word is left out of
\* its list, and a recursive frame has been entered with a list of its own.
C26_Witness ==
  /\ Len(stack) >= 2
  /\ word_num >= 2
  /\ \E w \in Range(stack[1].valid_words_vec) : ~Contained(w, stack[1].letters)
  /\ \E k \in word_num .. Len(valid_words_vec) :
       valid_words_vec[k] \notin Range(stack[1].valid_words_vec)
  /\ Len(stack[2].valid_words_vec) >= 2

\* ---------------------------------------------------------------- C27
\* A ceiling no solve of the model comes near: the solve as with no ceiling at all.
Unlimited == 100000
\* The solve of every dictionary and hand under that ceiling.
InitUnlimited ==
  /\ dictionary \in Dictionaries
  /\ available_letters \in Hands
  /\ maximum_words_checked = Unlimited
  /\ pc = "start"
  /\ valid_words_vec = <<>>
  /\ word_num = 0
  /\ words_checked = 0
  /\ board = <<>>
  /\ letters_on_board = <<>>
  /\ stack = <<>>
  /\ result = NoResult
  /\ calls = 0
  /\ ended = <<>>
  /\ t = [op |-> "solve"]
\* play_bananagrams is one sequential call: it goes on as long as it has a step.
SpecUnlimited == InitUnlimited /\ [][Next]_vars /\ WF_vars(Next)

\* Where a frame is in its loops: pass, word, origin row (column), origin column
\* (row); at the head of the word loop no origin has been taken yet.
Position(f, at) ==
  IF at \in {"enter", "word"} THEN <<f.pass, f.w, -1, -1>> ELSE <<f.pass, f.w, f.outer, f.inner>>
\* The lexicographic order of two positions.
Before(p, q) ==
  \E k \in 1 .. 4 : p[k] < q[k] /\ \A j \in 1 .. (k - 1) : p[j] = q[j]
\* The frame's loops are inside their ranges.
InsideItsLoops(f, at) ==
  /\ f.pass \in 1 .. 2
  /\ f.w \in 1 .. (Len(f.valid_words_vec) + 1)
  /\ at \in {"try", "played", "returned"} =>
       /\ f.w <= Len(f.valid_words_vec)
       /\ f.outer \in OuterLow(f) .. OuterHigh(f)
       /\ f.inner \in InnerLow(f, Candidate(f)) .. InnerHigh(f)
\* Every frame holds at least one tile and fewer tiles than its caller.
HandsShrink ==
  /\ \A i \in 1 .. Len(stack) : Total(stack[i].letters) >= 1
  /\ \A i \in 2 .. Len(stack) : Total(stack[i].letters) < Total(stack[i - 1].letters)
\* A step that stays in the top frame moves it forward in its loops, or (the call
\* of play_word, the ceiling test) leaves it where it is on the way to a step that does.
FrameMovesForward ==
  (Len(stack) >= 1 /\ Len(stack') = Len(stack)) =>
     /\ SubSeq(stack', 1, Len(stack) - 1) = SubSeq(stack, 1, Len(stack) - 1)
     /\ IF pc \in {"try", "enter"}
        THEN Position(Top', pc') = Position(Top, pc)
        ELSE Before(Position(Top, pc), Position(Top', pc'))

\* C27: with a ceiling that never bites, play_bananagrams returns for every
\* dictionary and hand; every frame holds fewer tiles than its caller, so there are
\* never more frames than tiles left after the root word; and a frame only moves
\* forward through its finite ranges of passes, words and origins.
C27_Terminates ==
  /\ <>(pc = "done")
  /\ [](/\ words_checked < Unlimited
        /\ HandsShrink
        /\ Len(stack) >= 1 => Len(stack) <= Total(stack[1].letters)
        /\ Len(stack) >= 1 => InsideItsLoops(Top, pc))
  /\ [][FrameMovesForward]_vars
\* As many frames as tiles were left after the root word, in a solve that has
\* gone on past the model's finite ceiling.
C27_Witness ==
  /\ maximum_words_checked = Unlimited
  /\ Len(stack) >= 2
  /\ Len(stack) = Total(stack[1].letters)
  /\ words_checked > MaxCeiling + 1

\* ---------------------------------------------------------------- C28
\* The validity check of the frame's play against a given set of words.
ValidUnder(f, brd, words) ==
  LET n == Len(Candidate(f))
      box == NewBox(f)
  IN IF Direction(f) = "Horizontal"
     THEN is_board_valid_horizontal(brd, box.min_col, box.max_col, box.min_row, box.max_row,
                                    RowOf(f), ColOf(f), ColOf(f) + n - 1, words)
     ELSE is_board_valid_vertical(brd, box.min_col, box.max_col, box.min_row, box.max_row,
                                  RowOf(f), RowOf(f) + n - 1, ColOf(f), words)
\* play_further is about to hand the board to a scanner ("if res.0").
ScannerConsulted == pc = "played" /\ Top.res.ok
\* The maximal runs of the board, in rows and in columns.
RunsOf(brd) ==
  {RunLetters(brd, r[2], r[1], r[3], r[4]) :
     r \in {q \in BOOLEAN \X (0 .. (BOARD_SIZE - 1)) \X (0 .. (BOARD_SIZE - 1))
                            \X (0 .. (BOARD_SIZE - 1)) :
              IsMaximalRun(brd, q[2], q[1], q[3], q[4])}}

RECURSIVE place_root_wide(_, _, _, _, _, _, _)
place_root_wide(word, i, row, col_start, brd, on_board, use_letters) ==
  IF i > Len(word)
  THEN [board |-> brd, letters_on_board |-> on_board, use_letters |-> use_letters]
  ELSE place_root_wide(word, i + 1, row, col_start,
                  set_val_wide(brd, row, col_start + (i - 1), word[i]),
                  [on_board EXCEPT ![word[i]] = @ + 1],
                  [use_letters EXCEPT ![word[i]] = @ - 1])
\* Lines 745-775: the next root word on a new board, or None after the last.
Root_wide ==
  /\ pc = "root"
  /\ IF word_num > Len(valid_words_vec)
     THEN /\ pc' = "done"
          /\ result' = [kind |-> "None"]
          /\ UNCHANGED <<words_checked, board, letters_on_board, stack, ended>>
     ELSE LET word == valid_words_vec[word_num]
              col_start == (BOARD_SIZE_wide \div 2) - (Len(word) \div 2)
              row == BOARD_SIZE_wide \div 2
              placed == place_root_wide(word, 1, row, col_start, NewBoard_wide, ZeroLetters,
                                   available_letters)
              min_col == col_start
              min_row == row
              max_col == col_start + (Len(word) - 1)
              max_row == row
              word_letters == Range(word)
              later == SubSeq(valid_words_vec, word_num, Len(valid_words_vec))
              new_valid_words_vec ==
                SelectSeq(later, LAMBDA w :
                            check_filter_after_play(placed.use_letters, w, word_letters))
          IN /\ words_checked' = words_checked + 1
             /\ board' = placed.board
             /\ letters_on_board' = placed.letters_on_board
             /\ IF AllUsed(placed.use_letters)
                THEN /\ pc' = "done"
                     /\ result' = [kind |-> "Some", min_col |-> min_col, max_col |-> max_col,
                                   min_row |-> min_row, max_row |-> max_row]
                     /\ ended' = Append(ended, "RootAlone")
                     /\ stack' = stack
                ELSE /\ pc' = "enter"
                     /\ result' = result
                     /\ ended' = ended
                     /\ stack' = <<Frame(min_col, max_col, min_row, max_row,
                                         new_valid_words_vec, placed.use_letters, 0)>>
  /\ UNCHANGED <<inputs, valid_words_vec, word_num, calls, t>>
\* The call of play_word at the current origin; its `?` ends the root attempt.
Try_wide ==
  /\ pc = "try"
  /\ LET f == Top
         res == play_word_wide(Candidate(f), RowOf(f), ColOf(f), board, Direction(f),
                          f.letters, letters_on_board)
     IN /\ calls' = calls + 1
        /\ IF res.err
           THEN /\ EndAttempt("OutOfBounds_wide")
                /\ UNCHANGED <<board, letters_on_board>>
           ELSE IF res.undefined
           THEN /\ pc' = "undefined"
                /\ UNCHANGED <<stack, word_num, ended, result, board, letters_on_board>>
           ELSE /\ board' = res.board
                /\ letters_on_board' = res.letters_on_board
                /\ stack' = SetTop([f EXCEPT !.res = [ok |-> res.ok, played |-> res.played,
                                                      remaining |-> res.remaining,
                                                      usage |-> res.usage]])
                /\ pc' = "played"
                /\ UNCHANGED <<word_num, ended, result>>
  /\ UNCHANGED <<inputs, valid_words_vec, words_checked, t>>
\* The validity check play_further makes of an accepted play.
PlayIsValid_wide(f, brd) ==
  LET n == Len(Candidate(f))
      box == NewBox(f)
      valid_words_set == Range(valid_words_vec)
  IN IF Direction(f) = "Horizontal"
     THEN is_board_valid_horizontal_wide(brd, box.min_col, box.max_col, box.min_row, box.max_row,
                                    RowOf(f), ColOf(f), ColOf(f) + n - 1, valid_words_set)
     ELSE is_board_valid_vertical_wide(brd, box.min_col, box.max_col, box.min_row, box.max_row,
                                  RowOf(f), RowOf(f) + n - 1, ColOf(f), valid_words_set)
\* undo_play of the frame's last play, then on to the next origin.
UndoAndAdvance_wide(f) ==
  LET undone == undo_play_wide(board, f.res.played, letters_on_board)
  IN /\ board' = undone.board
     /\ letters_on_board' = undone.letters_on_board
     /\ stack' = SetTop(Advance(f))
     /\ pc' = AdvancePc(f)
     /\ UNCHANGED <<word_num, ended, result>>
\* What play_further does with the tuple play_word returned.
Played_wide ==
  /\ pc = "played"
  /\ LET f == Top
         box == NewBox(f)
     IN IF f.res.ok /\ PlayIsValid_wide(f, board)
        THEN IF f.res.usage = "Finished"
             THEN /\ pc' = "done"
                  /\ result' = [kind |-> "Some", min_col |-> box.min_col,
                                max_col |-> box.max_col, min_row |-> box.min_row,
                                max_row |-> box.max_row]
                  /\ ended' = Append(ended, "Solved")
                  /\ stack' = <<>>
                  /\ UNCHANGED <<word_num, board, letters_on_board>>
             ELSE /\ stack' = Append(stack,
                                     Frame(box.min_col, box.max_col, box.min_row, box.max_row,
                                           NewValidWordsVec(f, letters_on_board),
                                           f.res.remaining, f.depth + 1))
                  /\ pc' = "enter"
                  /\ UNCHANGED <<word_num, ended, result, board, letters_on_board>>
        ELSE UndoAndAdvance_wide(f)
  /\ UNCHANGED <<inputs, valid_words_vec, words_checked, calls, t>>
\* The recursive call returned Ok((false, ..)): undo the play it was made for.
Returned_wide ==
  /\ pc = "returned"
  /\ UndoAndAdvance_wide(Top)
  /\ UNCHANGED <<inputs, valid_words_vec, words_checked, calls, t>>

\* The dictionary words of the wide solve, longest first: AAAAAA, CBCCCC, CCCCB, AB.
WideWords ==
  << <<0, 0, 0, 0, 0, 0>>, <<2, 1, 2, 2, 2, 2>>, <<2, 2, 2, 2, 1>>, <<0, 1>> >>
WideDictionaries ==
  {SelectSeq(WideWords, LAMBDA w : \E i \in S : WideWords[i] = w) :
     S \in SUBSET (1 .. Len(WideWords))}
\* Hands of BOARD_SIZE_wide / 2 tiles, as large as generate_hand makes them:
\* six A, and six tiles of B and C.
WideHands ==
  {h \in [Letters -> 0 .. (BOARD_SIZE_wide \div 2)] :
     /\ Total(h) = BOARD_SIZE_wide \div 2
     /\ h[0] = 6
     /\ h[1] \in 1 .. 2}

InitWide ==
  /\ dictionary \in WideDictionaries
  /\ available_letters \in WideHands
  /\ maximum_words_checked = Unlimited
  /\ pc = "start"
  /\ valid_words_vec = <<>>
  /\ word_num = 0
  /\ words_checked = 0
  /\ board = <<>>
  /\ letters_on_board = <<>>
  /\ stack = <<>>
  /\ result = NoResult
  /\ calls = 0
  /\ ended = <<>>
  /\ t = [op |-> "solve"]

NextWide == Start \/ Root_wide \/ Enter \/ NextWord \/ Try_wide \/ Played_wide \/ Returned_wide

SpecWide == InitWide /\ [][NextWide]_vars

\* C29: with the root word centred and a hand of at most half the grid's side,
\* no subtraction that computes an origin range goes below zero: where a frame
\* takes its next candidate, min_row - 1, min_col - 1 and min_col - len(word)
\* (min_row - len(word) in a vertical pass) are all at least 0, and the solve
\* never stops on an underflow.
C29_AsStated ==
  /\ Total(available_letters) <= BOARD_SIZE_wide \div 2
  /\ pc # "panic"
  /\ (pc = "word" /\ Top.w <= Len(Top.valid_words_vec)) => ~Underflows(Top, Candidate(Top))

==============================================================================
